---- MODULE Spec2Model ----
(***************************************************************************)
(* A model of json-to-mse's document model (DataFile / Data), its          *)
(* serializer (write_inner, write_to), the ability formatter               *)
(* (ability_lines), the mana cost encoder (cost_to_mse) and the card       *)
(* translator (from_card, add_card), all of src/src/mse.rs, with           *)
(* Output::write_set_file of src/src/args.rs.                              *)
(*                                                                         *)
(* A Rust String is a sequence of one-character strings, so that line      *)
(* breaks, tabs and separators are characters the model can see.           *)
(***************************************************************************)
EXTENDS Integers, Sequences, FiniteSets, TLC

VARIABLES
    doc,        \* serializer: the DataFile write_inner is called on
    indent,     \* serializer: the indent argument of the outermost call
    buf,        \* serializer: the bytes written to the buffer
    spc,        \* serializer: "ready" before the call, "written" after it
    opA,        \* merge: the three DataFiles that are merged
    opB,
    opC,
    accL,       \* merge: the receiver of (A += B) += C
    stepL,      \* merge: how many += the left grouping has done (0..2)
    accR,       \* merge: the receiver of B += C, then of A += (B += C)
    stepR,      \* merge: how many += the right grouping has done (0..2)
    abilities,  \* formatter: the Vec<Ability> given to ability_lines
    lines,      \* formatter: the Vec<String> it returns
    apc,        \* formatter: "ready" before the call, "done" after it
    cost,       \* encoder: the symbols of the ManaCost given to cost_to_mse
    encoded,    \* encoder: the String it returns
    cpc,        \* encoder: "ready" before the call, "done" after it
    arg_card,   \* translator: the card given to add_card
    arg_game,   \* translator: the MseGame it is translated for
    set_file,   \* translator: the DataFile the card is added to
    kpc,        \* translator: "ready" before add_card, "done" after it
    s_file,     \* set builder: the DataFile made by new / new_schemes / new_vanguards
    s_new,      \* set builder: that DataFile as the constructor returned it
    s_cards,    \* set builder: the (card, mse_game) pairs given to add_card so far
    s_ret,      \* set builder: what the last add_card returned: "none" or "Ok"
    w_self,     \* writer: the DataFile given to write_set_file
    w_output,   \* writer: "File" or "Stdout", the Output written to
    w_pc,       \* writer: the next operation of write_set_file / write_to
    w_i,        \* writer: the index i of the image loop (0-based)
    w_zip,      \* writer: the streams of the archive, each a name and its bytes
    w_log,      \* writer: the I/O operations write_to has made, with their outcome
    w_ret,      \* writer: what write_to returned: "none", "Ok" or "Err"
    w_stdout,   \* writer: the streams copied to the standard output
    w_result    \* writer: what write_set_file returned: "none", "Ok" or "Err"

serVars == <<doc, indent, buf, spc>>
mergeVars == <<opA, opB, opC, accL, stepL, accR, stepR>>

abilVars == <<abilities, lines, apc>>

costVars == <<cost, encoded, cpc>>

cardVars == <<arg_card, arg_game, set_file, kpc>>

setVars == <<s_file, s_new, s_cards, s_ret>>

writeVars == <<w_self, w_output, w_pc, w_i, w_zip, w_log, w_ret, w_stdout, w_result>>

vars == <<serVars, mergeVars, abilVars, costVars, cardVars, setVars, writeVars>>

(***************************************************************************)
(* Strings                                                                 *)
(***************************************************************************)
TAB == "\t"
CR == "\r"
LF == "\n"

\* "\t".repeat(n)
RECURSIVE Repeat(_, _)
Repeat(c, n) == IF n = 0 THEN <<>> ELSE <<c>> \o Repeat(c, n - 1)

\* text.contains(c)
Contains(text, c) == \E i \in 1..Len(text) : text[i] = c

\* text.split(c): the pieces between the occurrences of c, left to right; a
\* text with k occurrences has k+1 pieces, empty ones included.
RECURSIVE SplitFrom(_, _, _, _)
SplitFrom(text, c, i, piece) ==
    IF i > Len(text) THEN <<piece>>
    ELSE IF text[i] = c THEN <<piece>> \o SplitFrom(text, c, i + 1, <<>>)
    ELSE SplitFrom(text, c, i + 1, Append(piece, text[i]))

Split(text, c) == SplitFrom(text, c, 1, <<>>)

\* Option<T>
None == [some |-> FALSE]
Some(v) == [some |-> TRUE, val |-> v]

\* the decimal digits of a natural number, as the Display of an integer
\* writes them
Digit(d) == <<"0", "1", "2", "3", "4", "5", "6", "7", "8", "9">>[d + 1]

RECURSIVE to_string(_)
to_string(n) == IF n < 10 THEN <<Digit(n)>> ELSE to_string(n \div 10) \o <<Digit(n % 10)>>

\* the upper-case form of a character
ToUpper(c) ==
    CASE c = "a" -> "A" [] c = "f" -> "F" [] c = "t" -> "T" [] c = "w" -> "W"
      [] OTHER -> c

\* StrExt::to_uppercase_first: the first character in upper case, the rest
\* as it is
to_uppercase_first(text) ==
    IF text = <<>> THEN <<>> ELSE <<ToUpper(Head(text))>> \o Tail(text)

\* lines.join(sep)
RECURSIVE Join(_, _)
Join(parts, sep) ==
    IF parts = <<>> THEN <<>>
    ELSE IF Len(parts) = 1 THEN Head(parts)
    ELSE Head(parts) \o sep \o Join(Tail(parts), sep)

(***************************************************************************)
(* Data and DataFile                                                       *)
(***************************************************************************)
\* enum Data { Flat(String), Subfile(DataFile) }
Flat(text) == [kind |-> "Flat", text |-> text]
Subfile(file) == [kind |-> "Subfile", file |-> file]

\* struct DataFile { images, items }
DataFile(images, items) == [images |-> images, items |-> items]

\* DataFile::default()
DataFileDefault == DataFile(<<>>, <<>>)

\* DataFile::from_iter: no image, the items in the order given
FromIter(items) == DataFile(<<>>, items)

\* DataFile::push: one (key, value) at the end of items
Push(self, key, value) == [self EXCEPT !.items = Append(@, <<key, value>>)]

\* Vec::extend: the elements of the argument, pushed one by one in its order
RECURSIVE Extend(_, _)
Extend(vec, more) ==
    IF more = <<>> THEN vec ELSE Extend(Append(vec, Head(more)), Tail(more))

\* a merge that puts the argument's entries in front of the receiver's
add_assign_swapped(self, rhs) ==
    DataFile(Extend(self.images, rhs.images), Extend(rhs.items, self.items))

\* impl AddAssign for DataFile: self += rhs
add_assign(self, rhs) ==
    DataFile(Extend(self.images, rhs.images), Extend(self.items, rhs.items))

(***************************************************************************)
(* write_inner                                                             *)
(***************************************************************************)
\* a multi-line branch that indents the pieces like the key
RECURSIVE WritePiecesShallow(_, _, _)
WritePiecesShallow(out, pieces, ind) ==
    IF pieces = <<>> THEN out
    ELSE WritePiecesShallow(out \o Repeat(TAB, ind) \o Head(pieces) \o <<CR, LF>>,
                            Tail(pieces), ind)

\* the loop over text.split('\n') of the multi-line branch
RECURSIVE WritePieces(_, _, _)
WritePieces(out, pieces, ind) ==
    IF pieces = <<>> THEN out
    ELSE WritePieces(out \o Repeat(TAB, ind + 1) \o Head(pieces) \o <<CR, LF>>,
                     Tail(pieces), ind)

\* a flat arm without the multi-line branch
WriteFlatInline(out, key, text, ind) == out \o key \o <<":", " ">> \o text \o <<CR, LF>>

\* the Data::Flat arm
WriteFlat(out, key, text, ind) ==
    IF Contains(text, LF)
    THEN WritePieces(out \o key \o <<":", CR, LF>>, Split(text, LF), ind)
    ELSE out \o key \o <<":", " ">> \o text \o <<CR, LF>>

\* the loop over self.items, one item per step, the Data::Subfile arm included
RECURSIVE WriteItems(_, _, _)
WriteItems(out, items, ind) ==
    IF items = <<>> THEN out
    ELSE LET key == Head(items)[1]
             value == Head(items)[2]
             lead == out \o Repeat(TAB, ind)
             done == IF value.kind = "Flat"
                     THEN WriteFlat(lead, key, value.text, ind)
                     ELSE WriteItems(lead \o key \o <<CR, LF>>, value.file.items, ind + 1)
         IN  WriteItems(done, Tail(items), ind)

\* DataFile::write_inner(&self, buf, indent) on a buffer that never fails
write_inner(self, out, ind) == WriteItems(out, self.items, ind)

(***************************************************************************)
(* ability_lines                                                           *)
(***************************************************************************)
\* enum Ability of the card model. A keyword is held by the text its Display
\* writes (lower case, as in rules text); a chapter by the text its Display
\* writes.
Keyword(name) == [kind |-> "Keyword", keyword |-> name]
Other(text) == [kind |-> "Other", text |-> text]
Modal(choose, modes) == [kind |-> "Modal", choose |-> choose, modes |-> modes]
Chapter(text) == [kind |-> "Chapter", text |-> text]
Level(min, max, power, toughness, abils) ==
    [kind |-> "Level", min |-> min, max |-> max, power |-> power,
     toughness |-> toughness, abilities |-> abils]

\* U+2022, the bullet of a mode line, as one character
BULLET == "bullet"

Str_LEVEL == <<"{", "L", "E", "V", "E", "L", " ">>

\* a level tag that never names the upper end
LevelKeywordOpenOnly(min, max) == Str_LEVEL \o to_string(min) \o <<"+", "}">>

\* format!("{{LEVEL {}-{}}}", min, max) or format!("{{LEVEL {}+}}", min)
LevelKeyword(min, max) ==
    IF max.some
    THEN Str_LEVEL \o to_string(min) \o <<"-">> \o to_string(max.val) \o <<"}">>
    ELSE Str_LEVEL \o to_string(min) \o <<"+", "}">>

\* format!("{}/{}", power, toughness)
PowerToughness(power, toughness) == to_string(power) \o <<"/">> \o to_string(toughness)

\* the first match of the loop body: a pending keyword line is pushed and
\* cleared before any ability that is not a keyword
FlushedLines(ls, cur, ability) ==
    IF ability.kind # "Keyword" /\ cur.some THEN Append(ls, cur.val) ELSE ls

FlushedKeywords(cur, ability) ==
    IF ability.kind # "Keyword" /\ cur.some THEN None ELSE cur

\* the Ability::Keyword arm: append ", keyword" to the pending line, or start
\* one with the keyword's first character in upper case
KeywordArm(cur, keyword) ==
    IF cur.some
    THEN Some(cur.val \o <<",", " ">> \o keyword)
    ELSE Some(to_uppercase_first(keyword))

\* the Ability::Modal arm: choose, then one bulleted line per mode
RECURSIVE ModalArm(_, _)
ModalArm(ls, modes) ==
    IF modes = <<>> THEN ls
    ELSE ModalArm(Append(ls, <<BULLET, " ">> \o Head(modes)), Tail(modes))

\* the end of ability_lines without its last push
AbilityDoneDropped(ls, cur) == ls

\* after the loop: a keyword line still pending is pushed
AbilityDone(ls, cur) == IF cur.some THEN Append(ls, cur.val) ELSE ls

RECURSIVE ability_lines(_)

\* the Ability::Level arm
LevelArm(ls, ability) ==
    LET level_keyword == LevelKeyword(ability.min, ability.max)
        pt == PowerToughness(ability.power, ability.toughness)
    IN  IF ability.abilities = <<>>
        THEN Append(ls, level_keyword \o <<" ">> \o pt)
        ELSE Append(Append(ls, level_keyword) \o ability_lines(ability.abilities), pt)

\* the loop of ability_lines over the abilities left, with the lines pushed
\* so far and the pending keyword line
RECURSIVE AbilityLoop(_, _, _)
AbilityLoop(abils, ls, cur) ==
    IF abils = <<>> THEN AbilityDone(ls, cur)
    ELSE LET ability == Head(abils)
             ls1 == FlushedLines(ls, cur, ability)
             cur1 == FlushedKeywords(cur, ability)
         IN  CASE ability.kind = "Other" ->
                    AbilityLoop(Tail(abils), Append(ls1, ability.text), cur1)
               [] ability.kind = "Keyword" ->
                    AbilityLoop(Tail(abils), ls1, KeywordArm(cur1, ability.keyword))
               [] ability.kind = "Modal" ->
                    AbilityLoop(Tail(abils),
                                ModalArm(Append(ls1, ability.choose), ability.modes), cur1)
               [] ability.kind = "Chapter" ->
                    AbilityLoop(Tail(abils), Append(ls1, ability.text), cur1)
               [] ability.kind = "Level" ->
                    AbilityLoop(Tail(abils), LevelArm(ls1, ability), cur1)

ability_lines(abils) == AbilityLoop(abils, <<>>, None)

(***************************************************************************)
(* cost_to_mse                                                             *)
(***************************************************************************)
\* enum ManaSymbol of the card model
Generic(n) == [kind |-> "Generic", n |-> n]
Symbol(name) == [kind |-> name]

\* the match of cost_to_mse: one symbol's token
SymbolToken(symbol) ==
    CASE symbol.kind = "Variable" -> <<"X">>
      [] symbol.kind = "Generic" -> to_string(symbol.n)
      [] symbol.kind = "Snow" -> <<"S">>
      [] symbol.kind = "Colorless" -> <<"C">>
      [] symbol.kind = "TwobridWhite" -> <<"2", "/", "W">>
      [] symbol.kind = "TwobridBlue" -> <<"2", "/", "U">>
      [] symbol.kind = "TwobridBlack" -> <<"2", "/", "B">>
      [] symbol.kind = "TwobridRed" -> <<"2", "/", "R">>
      [] symbol.kind = "TwobridGreen" -> <<"2", "/", "G">>
      [] symbol.kind = "HybridWhiteBlue" -> <<"W", "/", "U">>
      [] symbol.kind = "HybridBlueBlack" -> <<"U", "/", "B">>
      [] symbol.kind = "HybridBlackRed" -> <<"B", "/", "R">>
      [] symbol.kind = "HybridRedGreen" -> <<"R", "/", "G">>
      [] symbol.kind = "HybridGreenWhite" -> <<"G", "/", "W">>
      [] symbol.kind = "HybridWhiteBlack" -> <<"W", "/", "B">>
      [] symbol.kind = "HybridBlueRed" -> <<"U", "/", "R">>
      [] symbol.kind = "HybridBlackGreen" -> <<"B", "/", "G">>
      [] symbol.kind = "HybridRedWhite" -> <<"R", "/", "W">>
      [] symbol.kind = "HybridGreenBlue" -> <<"G", "/", "U">>
      [] symbol.kind = "PhyrexianWhite" -> <<"H", "/", "W">>
      [] symbol.kind = "PhyrexianBlue" -> <<"H", "/", "U">>
      [] symbol.kind = "PhyrexianBlack" -> <<"H", "/", "B">>
      [] symbol.kind = "PhyrexianRed" -> <<"H", "/", "R">>
      [] symbol.kind = "PhyrexianGreen" -> <<"H", "/", "G">>
      [] symbol.kind = "White" -> <<"W">>
      [] symbol.kind = "Blue" -> <<"U">>
      [] symbol.kind = "Black" -> <<"B">>
      [] symbol.kind = "Red" -> <<"R">>
      [] symbol.kind = "Green" -> <<"G">>

\* an encoder that writes a symbol standing twice in a row only once
RECURSIVE cost_to_mse_dedup(_)
cost_to_mse_dedup(symbols) ==
    IF symbols = <<>> THEN <<>>
    ELSE IF Len(symbols) >= 2 /\ symbols[1] = symbols[2] THEN cost_to_mse_dedup(Tail(symbols))
    ELSE SymbolToken(Head(symbols)) \o cost_to_mse_dedup(Tail(symbols))

\* cost_to_mse: the tokens of cost.symbols(), collected into one String
RECURSIVE cost_to_mse(_)
cost_to_mse(symbols) ==
    IF symbols = <<>> THEN <<>>
    ELSE SymbolToken(Head(symbols)) \o cost_to_mse(Tail(symbols))

(***************************************************************************)
(* from_card and add_card                                                  *)
(***************************************************************************)
\* the field names from_card and add_card push
Key ==
    [name |->
        <<"n", "a", "m", "e">>,
     casting_cost |->
        <<"c", "a", "s", "t", "i", "n", "g", " ", "c", "o", "s", "t">>,
     type |->
        <<"t", "y", "p", "e">>,
     super_type |->
        <<"s", "u", "p", "e", "r", " ", "t", "y", "p", "e">>,
     sub_type |->
        <<"s", "u", "b", " ", "t", "y", "p", "e">>,
     rarity |->
        <<"r", "a", "r", "i", "t", "y">>,
     rule_text |->
        <<"r", "u", "l", "e", " ", "t", "e", "x", "t">>,
     loyalty |->
        <<"l", "o", "y", "a", "l", "t", "y">>,
     power |->
        <<"p", "o", "w", "e", "r">>,
     toughness |->
        <<"t", "o", "u", "g", "h", "n", "e", "s", "s">>,
     handmod |->
        <<"h", "a", "n", "d", "m", "o", "d">>,
     lifemod |->
        <<"l", "i", "f", "e", "m", "o", "d">>,
     stylesheet |->
        <<"s", "t", "y", "l", "e", "s", "h", "e", "e", "t">>,
     card |->
        <<"c", "a", "r", "d">>]

\* the stylesheet names of from_card
Stylesheet ==
    [planes |->
        <<"m", "1", "5", "-", "m", "a", "i", "n", "f", "r", "a", "m", "e",
          "-", "p", "l", "a", "n", "e", "s">>,
     planeswalker |->
        <<"m", "1", "5", "-", "m", "a", "i", "n", "f", "r", "a", "m", "e",
          "-", "p", "l", "a", "n", "e", "s", "w", "a", "l", "k", "e", "r">>,
     leveler |->
        <<"m", "1", "5", "-", "l", "e", "v", "e", "l", "e", "r">>,
     conspiracy |->
        <<"m", "1", "5", "-", "t", "t", "k", "-", "c", "o", "n", "s", "p",
          "i", "r", "a", "c", "y">>,
     aftermath |->
        <<"m", "1", "5", "-", "a", "f", "t", "e", "r", "m", "a", "t", "h">>,
     split_fusable |->
        <<"m", "1", "5", "-", "s", "p", "l", "i", "t", "-", "f", "u", "s",
          "a", "b", "l", "e">>,
     flip |->
        <<"m", "1", "5", "-", "f", "l", "i", "p">>,
     dfc |->
        <<"m", "1", "5", "-", "m", "a", "i", "n", "f", "r", "a", "m", "e",
          "-", "d", "f", "c">>]

\* the match on card.rarity()
RarityText ==
    [Land |->
        <<"b", "a", "s", "i", "c", " ", "l", "a", "n", "d">>,
     Common |->
        <<"c", "o", "m", "m", "o", "n">>,
     Uncommon |->
        <<"u", "n", "c", "o", "m", "m", "o", "n">>,
     Rare |->
        <<"r", "a", "r", "e">>,
     Mythic |->
        <<"m", "y", "t", "h", "i", "c", " ", "r", "a", "r", "e">>,
     Special |->
        <<"s", "p", "e", "c", "i", "a", "l">>]

\* the Display of the supertypes and card types used here
TypeName ==
    [Creature |->
        <<"C", "r", "e", "a", "t", "u", "r", "e">>,
     Planeswalker |->
        <<"P", "l", "a", "n", "e", "s", "w", "a", "l", "k", "e", "r">>,
     Plane |->
        <<"P", "l", "a", "n", "e">>,
     Phenomenon |->
        <<"P", "h", "e", "n", "o", "m", "e", "n", "o", "n">>,
     Conspiracy |->
        <<"C", "o", "n", "s", "p", "i", "r", "a", "c", "y">>,
     Scheme |->
        <<"S", "c", "h", "e", "m", "e">>,
     Vanguard |->
        <<"V", "a", "n", "g", "u", "a", "r", "d">>,
     Legendary |->
        <<"L", "e", "g", "e", "n", "d", "a", "r", "y">>]

\* the Display of KeywordAbility::Aftermath
Aftermath == <<"a", "f", "t", "e", "r", "m", "a", "t", "h">>

\* a face of the card model, as from_card reads it: to_string(), is_alt(),
\* layout() with the other face, mana_cost(), type_line().parts(), rarity(),
\* abilities(), loyalty(), pt(), stability(), vanguard_modifiers(),
\* is_leveler()
Card(name, alt, layout, mana_cost, supertypes, card_types, subtypes, rarity, abils, loyalty, pt, stability, vanguard_modifiers, leveler) ==
    [name |-> name, alt |-> alt, layout |-> layout, mana_cost |-> mana_cost,
     supertypes |-> supertypes, card_types |-> card_types, subtypes |-> subtypes,
     rarity |-> rarity, abilities |-> abils, loyalty |-> loyalty, pt |-> pt,
     stability |-> stability, vanguard_modifiers |-> vanguard_modifiers,
     leveler |-> leveler]

\* enum Layout: Normal and Adventure hold no face from_card reads; Split,
\* Flip, DoubleFaced and Meld hold the other face (right, flipped, back)
Layout(kind, other) == [kind |-> kind, other |-> other]

\* a subtype with the variant of enum Subtype it belongs to
Subtype(category, name) == [category |-> category, name |-> name]

\* card.type_line() >= card_type: the type line has the card type
HasType(card, card_type) == \E i \in 1..Len(card.card_types) : card.card_types[i] = card_type

\* the Display of the type line: supertypes and card types, then a dash and
\* the subtypes when there are any
TypeLineText(card) ==
    Join(card.supertypes \o card.card_types, <<" ">>)
        \o (IF card.subtypes = <<>> THEN <<>>
            ELSE <<" ", "emdash", " ">>
                     \o Join([i \in 1..Len(card.subtypes) |-> card.subtypes[i].name], <<" ">>))

\* a push_alt! that never writes the suffix
push_alt_plain(result, alt, key, val) == Push(result, key, Flat(val))

\* push_alt!: the key with " 2" behind it for an alternate face
push_alt(result, alt, key, val) ==
    IF alt THEN Push(result, key \o <<" ", "2">>, Flat(val))
    ELSE Push(result, key, Flat(val))

\* format!("<word-list-{}>{}</word-list-{}>", tag, text, tag)
WordList(tag, text) ==
    <<"<", "w", "o", "r", "d", "-", "l", "i", "s", "t", "-">> \o tag \o <<">">> \o text
        \o <<"<", "/", "w", "o", "r", "d", "-", "l", "i", "s", "t", "-">> \o tag \o <<">">>

\* the match on the subtype's variant
SubtypeTag(subtype) ==
    CASE subtype.category = "Artifact" -> <<"a", "r", "t", "i", "f", "a", "c", "t">>
      [] subtype.category = "Enchantment" -> <<"e", "n", "c", "h", "a", "n", "t", "m", "e", "n", "t">>
      [] subtype.category = "Land" -> <<"l", "a", "n", "d">>
      [] subtype.category = "Planeswalker" -> <<"p", "l", "a", "n", "e", "s", "w", "a", "l", "k", "e", "r">>
      [] subtype.category = "Spell" -> <<"s", "p", "e", "l", "l">>
      [] subtype.category = "Creature" -> <<"r", "a", "c", "e">>
      [] subtype.category = "Planar" -> <<"p", "l", "a", "n", "e">>

\* // mana cost
ManaCostPart(result, card) ==
    IF card.mana_cost.some
    THEN push_alt(result, card.alt, Key.casting_cost, cost_to_mse(card.mana_cost.val))
    ELSE result

\* // type line
TypeLinePart(result, card, mse_game) ==
    IF mse_game = "Archenemy"
    THEN push_alt(result, card.alt, Key.type, TypeLineText(card))
    ELSE LET words == card.supertypes \o card.card_types
             super == Join([i \in 1..Len(words) |-> WordList(<<"t", "y", "p", "e">>, words[i])],
                           <<" ">>)
             sub == Join([i \in 1..Len(card.subtypes) |->
                            WordList(SubtypeTag(card.subtypes[i]), card.subtypes[i].name)],
                         <<" ">>)
         IN  push_alt(push_alt(result, card.alt,
                               IF mse_game = "Vanguard" THEN Key.type ELSE Key.super_type,
                               super),
                      card.alt, Key.sub_type, sub)

\* // rarity
RarityPart(result, card, mse_game) ==
    IF mse_game # "Vanguard"
    THEN push_alt(result, card.alt, Key.rarity, RarityText[card.rarity])
    ELSE result

\* // text
TextPart(result, card) ==
    IF card.abilities # <<>>
    THEN push_alt(result, card.alt, Key.rule_text, Join(ability_lines(card.abilities), <<LF>>))
    ELSE result

\* a Magic stat block that writes the loyalty of any face that has one
MagicStatsLoyaltyFirst(result, card) ==
    IF card.loyalty.some
    THEN push_alt(result, card.alt, Key.loyalty, to_string(card.loyalty.val))
    ELSE IF card.pt.some
    THEN push_alt(push_alt(result, card.alt, Key.power, to_string(card.pt.val[1])),
                  card.alt, Key.toughness, to_string(card.pt.val[2]))
    ELSE result

\* a Magic stat block in which a planeswalker without a loyalty value falls
\* through to the other stat values
MagicStatsFallThrough(result, card) ==
    IF HasType(card, TypeName.Planeswalker) /\ card.loyalty.some
    THEN push_alt(result, card.alt, Key.loyalty, to_string(card.loyalty.val))
    ELSE IF card.pt.some
    THEN push_alt(push_alt(result, card.alt, Key.power, to_string(card.pt.val[1])),
                  card.alt, Key.toughness, to_string(card.pt.val[2]))
    ELSE IF card.stability.some
    THEN push_alt(result, card.alt, Key.power, to_string(card.stability.val))
    ELSE IF card.vanguard_modifiers.some
    THEN push_alt(push_alt(result, card.alt, Key.power,
                           to_string(card.vanguard_modifiers.val[1])),
                  card.alt, Key.toughness, to_string(card.vanguard_modifiers.val[2]))
    ELSE result

\* // P/T, loyalty/stability, hand/life modifier: the MseGame::Magic arm
MagicStats(result, card) ==
    IF HasType(card, TypeName.Planeswalker)
    THEN IF card.loyalty.some
         THEN push_alt(result, card.alt, Key.loyalty, to_string(card.loyalty.val))
         ELSE result
    ELSE IF card.pt.some
    THEN push_alt(push_alt(result, card.alt, Key.power, to_string(card.pt.val[1])),
                  card.alt, Key.toughness, to_string(card.pt.val[2]))
    ELSE IF card.stability.some
    THEN push_alt(result, card.alt, Key.power, to_string(card.stability.val))
    ELSE IF card.vanguard_modifiers.some
    THEN push_alt(push_alt(result, card.alt, Key.power,
                           to_string(card.vanguard_modifiers.val[1])),
                  card.alt, Key.toughness, to_string(card.vanguard_modifiers.val[2]))
    ELSE result

\* the match on mse_game of the stat block
StatsPart(result, card, mse_game) ==
    CASE mse_game = "Magic" -> MagicStats(result, card)
      [] mse_game = "Archenemy" -> result
      [] mse_game = "Vanguard" ->
            IF card.vanguard_modifiers.some
            THEN push_alt(push_alt(result, card.alt, Key.handmod,
                                   to_string(card.vanguard_modifiers.val[1])),
                          card.alt, Key.lifemod, to_string(card.vanguard_modifiers.val[2]))
            ELSE result

\* a split arm that looks at the right face's first ability only
SplitStylesheetFirstOnly(right) ==
    IF right.abilities # <<>> /\ right.abilities[1] = Keyword(Aftermath)
    THEN Some(Stylesheet.aftermath)
    ELSE Some(Stylesheet.split_fusable)

\* the Layout::Split arm of the stylesheet match
SplitStylesheet(right) ==
    IF \E i \in 1..Len(right.abilities) : right.abilities[i] = Keyword(Aftermath)
    THEN Some(Stylesheet.aftermath)
    ELSE Some(Stylesheet.split_fusable)

\* a Normal arm that asks for the leveler before the planeswalker
NormalStylesheetLevelerFirst(card) ==
    IF HasType(card, TypeName.Plane) \/ HasType(card, TypeName.Phenomenon)
    THEN Some(Stylesheet.planes)
    ELSE IF card.leveler THEN Some(Stylesheet.leveler)
    ELSE IF HasType(card, TypeName.Planeswalker) THEN Some(Stylesheet.planeswalker)
    ELSE IF HasType(card, TypeName.Conspiracy) THEN Some(Stylesheet.conspiracy)
    ELSE None

\* the Layout::Normal arm of the stylesheet match
NormalStylesheet(card) ==
    IF HasType(card, TypeName.Plane) \/ HasType(card, TypeName.Phenomenon)
    THEN Some(Stylesheet.planes)
    ELSE IF HasType(card, TypeName.Planeswalker) THEN Some(Stylesheet.planeswalker)
    ELSE IF card.leveler THEN Some(Stylesheet.leveler)
    ELSE IF HasType(card, TypeName.Conspiracy) THEN Some(Stylesheet.conspiracy)
    ELSE None

\* let stylesheet = match mse_game { ... }
StylesheetOf(card, mse_game) ==
    IF mse_game = "Magic"
    THEN CASE card.layout.kind = "Normal" -> NormalStylesheet(card)
           [] card.layout.kind = "Split" -> SplitStylesheet(card.layout.other)
           [] card.layout.kind = "Flip" -> Some(Stylesheet.flip)
           [] card.layout.kind = "DoubleFaced" -> Some(Stylesheet.dfc)
           [] card.layout.kind = "Meld" -> Some(Stylesheet.dfc)
           [] card.layout.kind = "Adventure" -> None
    ELSE None

\* // stylesheet
StylesheetPart(result, card, mse_game) ==
    IF ~card.alt /\ StylesheetOf(card, mse_game).some
    THEN Push(result, Key.stylesheet, Flat(StylesheetOf(card, mse_game).val))
    ELSE result

\* the layouts whose other face from_card translates
TwoFaced == {"Split", "Flip", "DoubleFaced", "Meld"}

\* a from_card whose layout match does not ask whether the card is an
\* alternate face: it translates the other face whenever the layout has one
RECURSIVE from_card_unguarded(_, _)
from_card_unguarded(card, mse_game) ==
    LET layout == IF mse_game = "Magic" /\ card.layout.kind \in TwoFaced
                     /\ card.layout.other # None
                  THEN add_assign(DataFileDefault, from_card_unguarded(card.layout.other, mse_game))
                  ELSE DataFileDefault
        name == push_alt(layout, card.alt, Key.name, card.name)
        mana == ManaCostPart(name, card)
        types == TypeLinePart(mana, card, mse_game)
        rarity == RarityPart(types, card, mse_game)
        text == TextPart(rarity, card)
        stats == StatsPart(text, card, mse_game)
    IN  StylesheetPart(stats, card, mse_game)

\* DataFile::from_card: the other face first (// layout), then the fields of
\* the face itself in the order of the code, then the stylesheet
RECURSIVE from_card(_, _)
from_card(card, mse_game) ==
    LET layout == IF mse_game = "Magic" /\ card.layout.kind \in TwoFaced /\ ~card.alt
                  THEN add_assign(DataFileDefault, from_card(card.layout.other, mse_game))
                  ELSE DataFileDefault
        name == push_alt(layout, card.alt, Key.name, card.name)
        mana == ManaCostPart(name, card)
        types == TypeLinePart(mana, card, mse_game)
        rarity == RarityPart(types, card, mse_game)
        text == TextPart(rarity, card)
        stats == StatsPart(text, card, mse_game)
    IN  StylesheetPart(stats, card, mse_game)

\* an add_card that keeps one entry per key: a second card takes the place
\* of the first
add_card_keyed(self, card, mse_game) ==
    IF \E i \in 1..Len(self.items) : self.items[i][1] = Key.card
    THEN [self EXCEPT !.items =
            [i \in 1..Len(self.items) |->
                IF self.items[i][1] = Key.card
                THEN <<Key.card, Subfile(from_card(card, mse_game))>>
                ELSE self.items[i]]]
    ELSE Push(self, Key.card, Subfile(from_card(card, mse_game)))

\* DataFile::add_card
add_card(self, card, mse_game) == Push(self, Key.card, Subfile(from_card(card, mse_game)))

(***************************************************************************)
(* new_inner, new, new_schemes, new_vanguards                              *)
(***************************************************************************)
\* the keys of the set file's header
HeaderKey ==
    [mse_version |->
        <<"m", "s", "e", " ", "v", "e", "r", "s", "i", "o", "n">>,
     game |->
        <<"g", "a", "m", "e">>,
     stylesheet |->
        <<"s", "t", "y", "l", "e", "s", "h", "e", "e", "t">>,
     set_info |->
        <<"s", "e", "t", " ", "i", "n", "f", "o">>,
     styling |->
        <<"s", "t", "y", "l", "i", "n", "g">>,
     magic_m15_altered |->
        <<"m", "a", "g", "i", "c", "-", "m", "1", "5", "-", "a", "l", "t",
          "e", "r", "e", "d">>,
     title |->
        <<"t", "i", "t", "l", "e">>,
     copyright |->
        <<"c", "o", "p", "y", "r", "i", "g", "h", "t">>,
     description |->
        <<"d", "e", "s", "c", "r", "i", "p", "t", "i", "o", "n">>,
     set_code |->
        <<"s", "e", "t", " ", "c", "o", "d", "e">>,
     set_language |->
        <<"s", "e", "t", " ", "l", "a", "n", "g", "u", "a", "g", "e">>,
     mark_errors |->
        <<"m", "a", "r", "k", " ", "e", "r", "r", "o", "r", "s">>,
     automatic_reminder_text |->
        <<"a", "u", "t", "o", "m", "a", "t", "i", "c", " ", "r", "e", "m",
          "i", "n", "d", "e", "r", " ", "t", "e", "x", "t">>,
     automatic_card_numbers |->
        <<"a", "u", "t", "o", "m", "a", "t", "i", "c", " ", "c", "a", "r",
          "d", " ", "n", "u", "m", "b", "e", "r", "s">>,
     mana_cost_sorting |->
        <<"m", "a", "n", "a", " ", "c", "o", "s", "t", " ", "s", "o", "r",
          "t", "i", "n", "g">>,
     border_color |->
        <<"b", "o", "r", "d", "e", "r", " ", "c", "o", "l", "o", "r">>]

\* the fixed texts of the header and of the default arguments
HeaderText ==
    [version |->
        <<"0", ".", "3", ".", "8">>,
     m15_altered |->
        <<"m", "1", "5", "-", "a", "l", "t", "e", "r", "e", "d">>,
     standard |->
        <<"s", "t", "a", "n", "d", "a", "r", "d">>,
     EN |->
        <<"E", "N">>,
     no |->
        <<"n", "o">>,
     yes |->
        <<"y", "e", "s">>,
     unsorted |->
        <<"u", "n", "s", "o", "r", "t", "e", "d">>,
     this_card_was |->
        <<"T", "h", "i", "s", " ", "c", "a", "r", "d", " ", "w", "a", "s">>,
     these_cards_were |->
        <<"T", "h", "e", "s", "e", " ", "c", "a", "r", "d", "s", " ", "w",
          "e", "r", "e">>,
     imported |->
        <<" ", "a", "u", "t", "o", "m", "a", "t", "i", "c", "a", "l", "l",
          "y", " ", "i", "m", "p", "o", "r", "t", "e", "d", " ", "f", "r",
          "o", "m", " ", "M", "T", "G", " ", "J", "S", "O", "N", " ", "u",
          "s", "i", "n", "g", " ", "j", "s", "o", "n", "-", "t", "o", "-",
          "m", "s", "e", ".">>,
     magic |->
        <<"m", "a", "g", "i", "c">>,
     archenemy |->
        <<"a", "r", "c", "h", "e", "n", "e", "m", "y">>,
     vanguard |->
        <<"v", "a", "n", "g", "u", "a", "r", "d">>,
     title_magic |->
        <<"M", "T", "G", " ", "J", "S", "O", "N", " ", "c", "a", "r", "d",
          " ", "i", "m", "p", "o", "r", "t">>,
     title_schemes |->
        <<"M", "T", "G", " ", "J", "S", "O", "N", " ", "c", "a", "r", "d",
          " ", "i", "m", "p", "o", "r", "t", ":", " ", "A", "r", "c", "h",
          "e", "n", "e", "m", "y", " ", "s", "c", "h", "e", "m", "e", "s">>,
     title_vanguards |->
        <<"M", "T", "G", " ", "J", "S", "O", "N", " ", "c", "a", "r", "d",
          " ", "i", "m", "p", "o", "r", "t", ":", " ", "V", "a", "n", "g",
          "u", "a", "r", "d", " ", "a", "v", "a", "t", "a", "r", "s">>,
     not_for_sale |->
        <<"N", "O", "T", " ", "F", "O", "R", " ", "S", "A", "L", "E">>,
     proxy |->
        <<"P", "R", "O", "X", "Y">>]

\* struct ArgsRegular
Args(all_command, auto_card_numbers, cards, copyright, output, planes_output, schemes_output, set_code, vanguards_output, verbose) ==
    [all_command |-> all_command, auto_card_numbers |-> auto_card_numbers, cards |-> cards,
     copyright |-> copyright, output |-> output, planes_output |-> planes_output,
     schemes_output |-> schemes_output, set_code |-> set_code,
     vanguards_output |-> vanguards_output, verbose |-> verbose]

\* Color { r, g, b, a }, a in tenths
Color(r, g, b, a) == [r |-> r, g |-> g, b |-> b, a |-> a]

\* impl Default for ArgsRegular
ArgsDefault ==
    Args(FALSE, FALSE, {}, HeaderText.not_for_sale, "Stdout", None, None, HeaderText.proxy,
         None, FALSE)

\* the configured border color: new_inner reads args.border_color, a field
\* that the ArgsRegular of args.rs does not declare and to which its Default
\* gives no value, so every value of it is an input
WithBorderColor(args, color) ==
    [f \in DOMAIN args \cup {"border_color"} |->
        IF f = "border_color" THEN color ELSE args[f]]

\* DataFile::new_inner
new_inner(args, num_cards, game, title) ==
    LET set_info == FromIter(<<
            <<HeaderKey.title, Flat(title)>>,
            <<HeaderKey.copyright, Flat(args.copyright)>>,
            <<HeaderKey.description,
              Flat((IF num_cards = 1 THEN HeaderText.this_card_was
                    ELSE HeaderText.these_cards_were) \o HeaderText.imported)>>,
            <<HeaderKey.set_code, Flat(args.set_code)>>,
            <<HeaderKey.set_language, Flat(HeaderText.EN)>>,
            <<HeaderKey.mark_errors, Flat(HeaderText.no)>>,
            <<HeaderKey.automatic_reminder_text, Flat(<<>>)>>,
            <<HeaderKey.automatic_card_numbers,
              Flat(IF args.auto_card_numbers THEN HeaderText.yes ELSE HeaderText.no)>>,
            <<HeaderKey.mana_cost_sorting, Flat(HeaderText.unsorted)>> >>)
        bordered ==
            IF args.border_color # Color(0, 0, 0, 10)
            THEN Push(set_info, HeaderKey.border_color,
                      Flat(<<"r", "g", "b", "(">> \o to_string(args.border_color.r)
                           \o <<",", " ">> \o to_string(args.border_color.g)
                           \o <<",", " ">> \o to_string(args.border_color.b) \o <<")">>))
            ELSE set_info
    IN  FromIter(<<
            <<HeaderKey.mse_version, Flat(HeaderText.version)>>,
            <<HeaderKey.game, Flat(game)>>,
            <<HeaderKey.stylesheet,
              Flat(IF game = HeaderText.magic THEN HeaderText.m15_altered
                   ELSE HeaderText.standard)>>,
            <<HeaderKey.set_info, Subfile(bordered)>>,
            <<HeaderKey.styling,
              Subfile(FromIter(<<<<HeaderKey.magic_m15_altered, Subfile(FromIter(<<>>))>>>>))>> >>)

\* DataFile::new, DataFile::new_schemes, DataFile::new_vanguards, by the
\* MseGame the set file is made for
NewFor(mse_game, args, num_cards) ==
    CASE mse_game = "Magic" ->
            new_inner(args, num_cards, HeaderText.magic, HeaderText.title_magic)
      [] mse_game = "Archenemy" ->
            new_inner(args, num_cards, HeaderText.archenemy, HeaderText.title_schemes)
      [] mse_game = "Vanguard" ->
            new_inner(args, num_cards, HeaderText.vanguard, HeaderText.title_vanguards)

(***************************************************************************)
(* Serializer inputs                                                       *)
(***************************************************************************)
MaxItems == 2
MaxIndent == 1

\* keys as the translator writes them, and keys holding the format's own marks
PlainKeys == {<<"k">>, <<"n", " ", "2">>, <<>>}
OddKeys == {<<"k", ":">>, <<"k", ":", " ">>, <<TAB, "k">>}
Keys == PlainKeys \cup OddKeys

Texts == {<<>>, <<"a">>, <<LF>>, <<"a", LF, "b">>, <<"a", LF>>, <<LF, LF, "b">>,
          <<TAB, "k">>, <<":">>, <<"a", ":", " ", "b">>, <<"a", CR>>}

CoreTexts == {<<"a">>, <<"a", LF, "b">>, <<TAB, "k">>}

LeafFiles == {FromIter(<<>>)} \cup {FromIter(<<<<k, Flat(t)>>>>) : k \in {<<"k">>}, t \in CoreTexts}

CoreValues == {Flat(t) : t \in CoreTexts} \cup {Subfile(FromIter(<<>>)), Subfile(FromIter(<<<<<<"k">>, Flat(<<"a">>)>>>>))}

CoreEntries == {<<k, v>> : k \in {<<"k">>}, v \in CoreValues}

NestedFiles == LeafFiles
    \cup {FromIter(<<<<k, Subfile(f)>>>>) : k \in {<<"k">>}, f \in LeafFiles}
    \cup {FromIter(<<e1, e2>>) : e1 \in CoreEntries, e2 \in CoreEntries}

Values == {Flat(t) : t \in Texts} \cup {Subfile(f) : f \in NestedFiles}

SeqsUpTo(S, n) == UNION {[1..m -> S] : m \in 0..n}

SerFiles == {FromIter(<<<<k, v>>>>) : k \in Keys, v \in Values}
    \cup {FromIter(items) : items \in SeqsUpTo(CoreEntries, MaxItems)}

(***************************************************************************)
(* Merge inputs                                                            *)
(***************************************************************************)
MaxMergeLen == 1

ImagePaths == {<<"p">>, <<"q">>}

\* two entries under the same key and one under another
MergeEntries == {<<<<"k">>, Flat(<<"a">>)>>, <<<<"k">>, Flat(<<"b">>)>>}

MergeFiles == {DataFile(im, it) : im \in SeqsUpTo(ImagePaths, MaxMergeLen),
                                  it \in SeqsUpTo(MergeEntries, MaxMergeLen)}

MergeIdle ==
    /\ opA = DataFileDefault /\ opB = DataFileDefault /\ opC = DataFileDefault
    /\ accL = DataFileDefault /\ accR = DataFileDefault
    /\ stepL = 0 /\ stepR = 0

(***************************************************************************)
(* Formatter inputs                                                        *)
(***************************************************************************)
MaxAbilities == 3

Flying == <<"f", "l", "y", "i", "n", "g">>
Trample == <<"t", "r", "a", "m", "p", "l", "e">>
Whenever == <<"W", "h", "e", "n", "e", "v", "e", "r", ".", ".", ".">>

LevelSet ==
    {Level(3, Some(6), 4, 4, <<>>), Level(3, None, 4, 4, <<>>)}
    \cup {Level(1, mx, 10, 12, ab) :
            mx \in {Some(2), None},
            ab \in {<<Keyword(Flying)>>, <<Keyword(Flying), Keyword(Trample)>>,
                    <<Other(Whenever), Keyword(Trample)>>}}

AbilitySet ==
    {Keyword(Flying), Keyword(Trample), Other(Whenever),
     Modal(<<"c", ":">>, <<<<"x">>, <<"y">>>>), Chapter(<<"I">>)}
    \cup LevelSet

AbilIdle == abilities = <<>> /\ lines = <<>> /\ apc = "idle"

(***************************************************************************)
(* Encoder inputs                                                          *)
(***************************************************************************)
MaxCost == 3

SymbolNames ==
    {"Variable", "Snow", "Colorless",
     "TwobridWhite", "TwobridBlue", "TwobridBlack", "TwobridRed", "TwobridGreen",
     "HybridWhiteBlue", "HybridBlueBlack", "HybridBlackRed", "HybridRedGreen",
     "HybridGreenWhite", "HybridWhiteBlack", "HybridBlueRed", "HybridBlackGreen",
     "HybridRedWhite", "HybridGreenBlue",
     "PhyrexianWhite", "PhyrexianBlue", "PhyrexianBlack", "PhyrexianRed", "PhyrexianGreen",
     "White", "Blue", "Black", "Red", "Green"}

AllSymbols == {Symbol(n) : n \in SymbolNames} \cup {Generic(n) : n \in {0, 2, 10, 16}}

CoreSymbols == {Generic(2), Generic(10), Symbol("White"), Symbol("Blue"),
                Symbol("HybridWhiteBlue"), Symbol("Variable")}

\* every symbol alone and in pairs, and the core symbols in longer costs
CostSet == SeqsUpTo(AllSymbols, 2) \cup SeqsUpTo(CoreSymbols, MaxCost)

CostIdle == cost = <<>> /\ encoded = <<>> /\ cpc = "idle"

(***************************************************************************)
(* Translator inputs                                                       *)
(***************************************************************************)
MseGames == {"Magic", "Archenemy", "Vanguard"}

\* border colors: opaque black, black that is not opaque, and red
BorderColors == {Color(0, 0, 0, 10), Color(0, 0, 0, 5), Color(255, 0, 0, 10)}

ArgsSet ==
    {WithBorderColor(ArgsDefault, c) : c \in BorderColors}
    \cup {WithBorderColor([ArgsDefault EXCEPT !.copyright = <<"c">>, !.set_code = <<"S">>,
                                              !.auto_card_numbers = TRUE],
                          Color(255, 0, 0, 10))}

Normal == Layout("Normal", None)

\* type lines: (supertypes, card types, subtypes)
TypeLines ==
    {<<<<>>, <<TypeName.Creature>>, <<Subtype("Creature", <<"E", "l", "f">>)>>>>,
     <<<<TypeName.Legendary>>, <<TypeName.Planeswalker>>, <<Subtype("Planeswalker", <<"J">>)>>>>,
     <<<<>>, <<TypeName.Plane>>, <<Subtype("Planar", <<"Z">>)>>>>,
     <<<<>>, <<TypeName.Phenomenon>>, <<>>>>,
     <<<<>>, <<TypeName.Conspiracy>>, <<>>>>,
     <<<<>>, <<TypeName.Scheme>>, <<>>>>,
     <<<<>>, <<TypeName.Vanguard>>, <<>>>>,
     <<<<TypeName.Legendary>>, <<TypeName.Planeswalker, TypeName.Creature>>,
       <<Subtype("Planeswalker", <<"J">>), Subtype("Creature", <<"E", "l", "f">>)>>>>}

CreatureLine == <<<<>>, <<TypeName.Creature>>, <<Subtype("Creature", <<"E", "l", "f">>)>>>>

\* which of loyalty, pt, stability, vanguard_modifiers a face has
StatBlocks ==
    {[loyalty |-> l, pt |-> p, stability |-> s, vanguard_modifiers |-> v] :
        l \in {None, Some(4)}, p \in {None, Some(<<2, 3>>)},
        s \in {None, Some(5)}, v \in {None, Some(<<1, 7>>)}}

PtOnly == [loyalty |-> None, pt |-> Some(<<2, 3>>), stability |-> None,
           vanguard_modifiers |-> None]

CostChoices == {None, Some(<<Generic(2), Symbol("White")>>)}

Rarities == {"Land", "Common", "Uncommon", "Rare", "Mythic", "Special"}

AbilityChoices ==
    {<<>>, <<Keyword(Aftermath)>>, <<Other(Whenever), Keyword(Aftermath)>>,
     <<Keyword(Flying), Other(Whenever)>>}

Face(name, alt, layout, mana_cost, type_line, rarity, abils, stats, leveler) ==
    Card(name, alt, layout, mana_cost, type_line[1], type_line[2], type_line[3], rarity,
         abils, stats.loyalty, stats.pt, stats.stability, stats.vanguard_modifiers, leveler)

\* single faces: every type line with every stat block, and the creature
\* with every cost, rarity and ability list
NormalFaces ==
    {Face(<<"A">>, FALSE, Normal, Some(<<Generic(2), Symbol("White")>>), tl, "Common", <<>>,
          st, lv) : tl \in TypeLines, st \in StatBlocks, lv \in BOOLEAN}
    \cup {Face(<<"A">>, FALSE, Normal, mc, CreatureLine, ra, ab, PtOnly, FALSE) :
            mc \in CostChoices, ra \in Rarities, ab \in AbilityChoices}

\* the other face of a two-faced card: flagged as alternate, when its own
\* layout is never read, or a face that is not flagged
OtherFaces ==
    {Face(<<"B">>, TRUE, Layout(k, None), mc, CreatureLine, "Rare", ab, st, FALSE) :
        k \in {"Split"}, mc \in CostChoices, ab \in AbilityChoices,
        st \in {PtOnly, [PtOnly EXCEPT !.pt = None]}}
    \cup {Face(<<"B">>, FALSE, Normal, None, tl, "Rare", <<>>, PtOnly, FALSE) :
            tl \in {CreatureLine,
                    <<<<TypeName.Legendary>>, <<TypeName.Planeswalker>>, <<>>>>}}

\* the front of a two-faced card, and Adventure cards
FrontFaces ==
    {Face(<<"A">>, FALSE, Layout(k, o), Some(<<Symbol("Red")>>), CreatureLine, "Common", ab,
          PtOnly, FALSE) :
        k \in TwoFaced, o \in OtherFaces, ab \in {<<>>, <<Keyword(Aftermath)>>}}
    \cup {Face(<<"A">>, al, Layout("Adventure", None), None, CreatureLine, "Common", <<>>,
               PtOnly, FALSE) : al \in BOOLEAN}

\* a card that is itself an alternate face
AltFaces ==
    {Face(<<"B">>, TRUE, Layout(k, None), Some(<<Symbol("Red")>>), tl, "Common", <<>>, st, lv) :
        k \in {"Split"}, tl \in TypeLines, st \in StatBlocks, lv \in BOOLEAN}
    \cup {Face(<<"B">>, TRUE, Layout(k, None), mc, CreatureLine, ra, ab, PtOnly, FALSE) :
            k \in TwoFaced, mc \in CostChoices, ra \in {"Common", "Mythic"},
            ab \in AbilityChoices}

\* faces whose other face has an other face of its own: an alternate face
\* whose layout holds a face, as the other face of a card and as a card, and
\* an other face that is not flagged and has an alternate face behind it
PlainFace == Face(<<"C">>, FALSE, Normal, None, CreatureLine, "Rare", <<>>, PtOnly, FALSE)

AltLeaf == Face(<<"C">>, TRUE, Layout("Flip", None), None, CreatureLine, "Rare", <<>>, PtOnly, FALSE)

AltHolding(k) ==
    Face(<<"B">>, TRUE, Layout(k, PlainFace), None, CreatureLine, "Rare", <<>>, PtOnly, FALSE)

Unflagged(k) ==
    Face(<<"B">>, FALSE, Layout(k, AltLeaf), None, CreatureLine, "Rare", <<>>, PtOnly, FALSE)

DeepFaces ==
    {AltHolding(k) : k \in TwoFaced}
    \cup {Face(<<"A">>, FALSE, Layout(k, o), Some(<<Symbol("Red")>>), CreatureLine, "Common",
               <<>>, PtOnly, FALSE) :
            k \in TwoFaced, o \in {AltHolding(k2) : k2 \in TwoFaced}
                                     \cup {Unflagged(k2) : k2 \in TwoFaced}}

CardSet == NormalFaces \cup FrontFaces \cup AltFaces \cup DeepFaces

CardIdle == arg_card = None /\ arg_game = "Magic" /\ set_file = DataFileDefault /\ kpc = "idle"

(***************************************************************************)
(* Set builder inputs                                                      *)
(***************************************************************************)
MaxCards == 2

\* the cards given to add_card one after the other: a creature, a split
\* card with its right half, a planeswalker and a Vanguard avatar
SetCards ==
    {Face(<<"A">>, FALSE, Normal, Some(<<Generic(2), Symbol("White")>>), CreatureLine, "Common",
          <<Keyword(Flying)>>, PtOnly, FALSE),
     Face(<<"A">>, FALSE,
          Layout("Split",
                 Face(<<"B">>, TRUE, Layout("Split", None), None, CreatureLine, "Rare",
                      <<Keyword(Aftermath)>>, PtOnly, FALSE)),
          Some(<<Symbol("Red")>>), CreatureLine, "Common", <<>>, PtOnly, FALSE),
     Face(<<"A">>, FALSE, Normal, None,
          <<<<TypeName.Legendary>>, <<TypeName.Planeswalker>>, <<>>>>, "Mythic", <<>>,
          [loyalty |-> Some(4), pt |-> None, stability |-> None, vanguard_modifiers |-> None],
          FALSE),
     Face(<<"A">>, FALSE, Normal, None, <<<<>>, <<TypeName.Vanguard>>, <<>>>>, "Special", <<>>,
          [loyalty |-> None, pt |-> None, stability |-> None,
           vanguard_modifiers |-> Some(<<1, 7>>)],
          FALSE)}

SetIdle == s_file = DataFileDefault /\ s_new = DataFileDefault /\ s_cards = <<>> /\ s_ret = "none"

(***************************************************************************)
(* Writer inputs                                                           *)
(***************************************************************************)
MaxImages == 2

\* the bytes of the image files on disk
FileBytes(path) == IF path = <<"p">> THEN <<"1", "2">> ELSE <<"3">>

WriteFiles ==
    {DataFile(im, it) :
        im \in SeqsUpTo(ImagePaths, MaxImages),
        it \in {<<>>, <<<<<<"k">>, Flat(<<"a">>)>>>>,
                <<<<<<"k">>, Subfile(FromIter(<<<<<<"j">>, Flat(<<"a", LF, "b">>)>>>>))>>>>}}

Prefixes(seq) == {SubSeq(seq, 1, n) : n \in 0..(Len(seq) - 1)}

WriteIdle ==
    /\ w_self = DataFileDefault /\ w_output = "File" /\ w_pc = "idle" /\ w_i = 0
    /\ w_zip = <<>> /\ w_log = <<>> /\ w_ret = "none" /\ w_stdout = <<>> /\ w_result = "none"

(***************************************************************************)
(* Serializer: write_inner applied to one DataFile                         *)
(***************************************************************************)
SerIdle == doc = DataFileDefault /\ indent = 0 /\ buf = <<>> /\ spc = "idle"

SerInit ==
    /\ doc \in SerFiles
    /\ indent = 0
    /\ buf = <<>>
    /\ spc = "ready"
    /\ MergeIdle /\ AbilIdle /\ CostIdle /\ CardIdle /\ SetIdle /\ WriteIdle

WriteInner ==
    /\ spc = "ready"
    /\ \E d \in 0..MaxIndent :
        /\ indent' = d
        /\ buf' = write_inner(doc, buf, d)
    /\ spc' = "written"
    /\ UNCHANGED <<doc, mergeVars, abilVars, costVars, cardVars, setVars, writeVars>>

SerNext == WriteInner

SpecSer == SerInit /\ [][SerNext]_vars

(***************************************************************************)
(* The text encoding as the format states it, line by line                 *)
(***************************************************************************)
Tabs(d) == [i \in 1..d |-> TAB]

\* the positions of the line breaks of a text, and its j-th piece (1-based):
\* what stands between the (j-1)-th and the j-th line break
BreaksOf(text) == {i \in 1..Len(text) : text[i] = LF}

BreakAt(text, j) ==
    IF j = 0 THEN 0
    ELSE IF j > Cardinality(BreaksOf(text)) THEN Len(text) + 1
    ELSE CHOOSE p \in BreaksOf(text) : Cardinality({q \in BreaksOf(text) : q <= p}) = j

PieceOf(text, j) == SubSeq(text, BreakAt(text, j - 1) + 1, BreakAt(text, j) - 1)

RECURSIVE EntryLines(_, _)
EntryLines(items, d) ==
    IF items = <<>> THEN <<>>
    ELSE LET key == Head(items)[1]
             value == Head(items)[2]
             own == IF value.kind = "Subfile"
                    THEN <<Tabs(d) \o key>> \o EntryLines(value.file.items, d + 1)
                    ELSE IF BreaksOf(value.text) = {}
                    THEN <<Tabs(d) \o key \o <<":", " ">> \o value.text>>
                    ELSE <<Tabs(d) \o key \o <<":">>>>
                         \o [j \in 1..(Cardinality(BreaksOf(value.text)) + 1) |->
                                Tabs(d + 1) \o PieceOf(value.text, j)]
         IN  own \o EntryLines(Tail(items), d)

\* every line followed by CRLF
RECURSIVE CrLfJoin(_)
CrLfJoin(ls) ==
    IF ls = <<>> THEN <<>> ELSE Head(ls) \o <<CR, LF>> \o CrLfJoin(Tail(ls))

\* C1: for every Document and every indent depth d, write_inner emits exactly
\* the lines of the format: per entry, in insertion order, d tabs and then
\* "key: value" for a flat text without line break, "key:" and one line of
\* d+1 tabs per piece of a flat text with line breaks (k breaks, k+1 lines),
\* "key" and the nested Document at depth d+1 for a tree; every line ends in
\* CRLF and no line feed stands in the output without a carriage return
\* before it.
C1_WriteInnerFormat ==
    spc = "written" =>
        /\ buf = CrLfJoin(EntryLines(doc.items, indent))
        /\ \A i \in 1..Len(buf) : buf[i] = LF => (i > 1 /\ buf[i - 1] = CR)
        /\ (buf # <<>> => (buf[Len(buf)] = LF /\ Len(buf) >= 2))

\* a text with two line breaks, one of its pieces empty, was written below a
\* key at depth 1
C1_Witness ==
    /\ spc = "written"
    /\ indent = 1
    /\ \E i \in 1..Len(doc.items) :
        /\ doc.items[i][2].kind = "Flat"
        /\ Cardinality(BreaksOf(doc.items[i][2].text)) = 2
    /\ Len(buf) > 0

(***************************************************************************)
(* Reading the text back by its indentation                                *)
(***************************************************************************)
\* the lines of a text: what stands before each line feed, without the
\* carriage return that ends it
StripCr(line) ==
    IF line # <<>> /\ line[Len(line)] = CR THEN SubSeq(line, 1, Len(line) - 1) ELSE line

LinesOf(text) ==
    LET pieces == Split(text, LF)
    IN  [i \in 1..(Len(pieces) - 1) |-> StripCr(pieces[i])]

RECURSIVE LeadingTabs(_)
LeadingTabs(line) ==
    IF line # <<>> /\ Head(line) = TAB THEN 1 + LeadingTabs(Tail(line)) ELSE 0

Drop(line, n) == SubSeq(line, n + 1, Len(line))

FirstColon(line) ==
    IF Contains(line, ":")
    THEN CHOOSE i \in 1..Len(line) : line[i] = ":" /\ \A j \in 1..(i - 1) : line[j] # ":"
    ELSE 0

\* how many of the leading lines are indented by at least d tabs
RECURSIVE DeeperRun(_, _)
DeeperRun(ls, d) ==
    IF ls # <<>> /\ LeadingTabs(Head(ls)) >= d
    THEN 1 + DeeperRun(Tail(ls), d) ELSE 0

RECURSIVE JoinLf(_)
JoinLf(pieces) ==
    IF pieces = <<>> THEN <<>>
    ELSE IF Len(pieces) = 1 THEN Head(pieces)
    ELSE Head(pieces) \o <<LF>> \o JoinLf(Tail(pieces))

\* the entries that the lines indented by exactly d tabs head, each with the
\* deeper lines below it
RECURSIVE ReadItems(_, _)
ReadItems(ls, d) ==
    IF ls = <<>> \/ LeadingTabs(Head(ls)) # d THEN <<>>
    ELSE LET body == Drop(Head(ls), d)
             n == DeeperRun(Tail(ls), d + 1)
             below == SubSeq(Tail(ls), 1, n)
             after == Drop(Tail(ls), n)
             c == FirstColon(body)
             entry ==
                 IF c = 0
                 THEN <<body, Subfile(FromIter(ReadItems(below, d + 1)))>>
                 ELSE IF c = Len(body)
                 THEN <<SubSeq(body, 1, c - 1),
                        Flat(JoinLf([i \in 1..n |-> Drop(below[i], d + 1)]))>>
                 ELSE IF body[c + 1] = " "
                 THEN <<SubSeq(body, 1, c - 1), Flat(Drop(body, c + 1))>>
                 ELSE <<body, Subfile(FromIter(ReadItems(below, d + 1)))>>
         IN  <<entry>> \o ReadItems(after, d)

\* the keys of a Document, nested ones included
RECURSIVE KeysOf(_)
KeysOf(items) ==
    IF items = <<>> THEN {}
    ELSE {Head(items)[1]}
         \cup (IF Head(items)[2].kind = "Subfile" THEN KeysOf(Head(items)[2].file.items) ELSE {})
         \cup KeysOf(Tail(items))

\* a key without ':' and line feed that does not begin with a tab
PlainKey(key) == ~Contains(key, ":") /\ ~Contains(key, LF) /\ (key = <<>> \/ Head(key) # TAB)

\* C2 (as amended): a Document all of whose keys hold no ':' and no line feed
\* and do not begin with a tab is recovered, entries, kinds and nesting, by
\* reading its depth-0 text back by indentation.
C2_RoundTripPlainKeys ==
    (spc = "written" /\ indent = 0 /\ \A k \in KeysOf(doc.items) : PlainKey(k))
        => ReadItems(LinesOf(buf), 0) = doc.items

\* a Document with a nested tree, an empty tree or a multi-line text among
\* plain keys was written at depth 0 and read back
C2_Witness ==
    /\ spc = "written" /\ indent = 0
    /\ \A k \in KeysOf(doc.items) : PlainKey(k)
    /\ Len(doc.items) = 2
    /\ doc.items[1][2].kind = "Flat" /\ Contains(doc.items[1][2].text, LF)
    /\ doc.items[2][2].kind = "Subfile" /\ doc.items[2][2].file.items = <<>>
    /\ ReadItems(LinesOf(buf), 0) = doc.items

\* C2 as stated: no two different Documents have the same depth-0 text; here,
\* the Document read back from the text, whenever it has the same text, is
\* the Document that was written.
C2_Original ==
    (spc = "written" /\ indent = 0)
        => LET back == FromIter(ReadItems(LinesOf(buf), 0))
           IN  write_inner(back, <<>>, 0) = buf => back.items = doc.items

(***************************************************************************)
(* Merge: (A += B) += C beside A += (B += C)                               *)
(***************************************************************************)
MergeInit ==
    /\ opA \in MergeFiles /\ opB \in MergeFiles /\ opC \in MergeFiles
    /\ accL = opA /\ stepL = 0
    /\ accR = opB /\ stepR = 0
    /\ SerIdle /\ AbilIdle /\ CostIdle /\ CardIdle /\ SetIdle /\ WriteIdle

\* the left grouping: the receiver A takes B, then C
MergeLeft ==
    /\ stepL < 2
    /\ accL' = add_assign(accL, IF stepL = 0 THEN opB ELSE opC)
    /\ stepL' = stepL + 1
    /\ UNCHANGED <<opA, opB, opC, accR, stepR, serVars, abilVars, costVars, cardVars, setVars, writeVars>>

\* the right grouping: B takes C, then A takes the result
MergeRight ==
    /\ stepR < 2
    /\ accR' = IF stepR = 0 THEN add_assign(opB, opC) ELSE add_assign(opA, accR)
    /\ stepR' = stepR + 1
    /\ UNCHANGED <<opA, opB, opC, accL, stepL, serVars, abilVars, costVars, cardVars, setVars, writeVars>>

MergeNext == MergeLeft \/ MergeRight

SpecMerge == MergeInit /\ [][MergeNext]_vars

\* s is exactly the elements of a, in a's order, then those of b, in b's order
IsConcat(s, a, b) ==
    /\ Len(s) = Len(a) + Len(b)
    /\ \A i \in 1..Len(a) : s[i] = a[i]
    /\ \A i \in 1..Len(b) : s[Len(a) + i] = b[i]

\* C3: after A += B the entries are A's followed by B's and the images A's
\* followed by B's, nothing dropped, duplicated or reordered, also under
\* repeated keys; the empty Document is a left and a right identity; and
\* (A += B) += C equals A += (B += C).
C3_MergeMonoid ==
    /\ stepL = 1 =>
        /\ IsConcat(accL.items, opA.items, opB.items)
        /\ IsConcat(accL.images, opA.images, opB.images)
        /\ (opB = DataFileDefault => accL = opA)
        /\ (opA = DataFileDefault => accL = opB)
    /\ (stepL = 2 /\ stepR = 2) => accL = accR

\* both groupings are done on three Documents that each hold an entry and an
\* image, the first two under the same key
C3_Witness ==
    /\ stepL = 2 /\ stepR = 2
    /\ Len(opA.items) = 1 /\ Len(opB.items) = 1 /\ Len(opC.items) = 1
    /\ opA.items[1][1] = opB.items[1][1] /\ opA.items[1] # opB.items[1]
    /\ Len(opA.images) = 1 /\ Len(opB.images) = 1 /\ opA.images # opB.images
    /\ Len(accL.items) = 3 /\ Len(accL.images) = 3

(***************************************************************************)
(* Formatter: ability_lines applied to one list of abilities               *)
(***************************************************************************)
AbilInit ==
    /\ abilities \in SeqsUpTo(AbilitySet, MaxAbilities)
    /\ lines = <<>>
    /\ apc = "ready"
    /\ SerIdle /\ MergeIdle /\ CostIdle /\ CardIdle /\ SetIdle /\ WriteIdle

AbilityLines ==
    /\ apc = "ready"
    /\ lines' = ability_lines(abilities)
    /\ apc' = "done"
    /\ UNCHANGED <<abilities, serVars, mergeVars, costVars, cardVars, setVars, writeVars>>

AbilNext == AbilityLines

SpecAbil == AbilInit /\ [][AbilNext]_vars

IsKw(a) == a.kind = "Keyword"

\* position i starts a maximal run of keyword abilities, and where it ends
RunStart(abils, i) == IsKw(abils[i]) /\ (i = 1 \/ ~IsKw(abils[i - 1]))

RunEnd(abils, i) ==
    CHOOSE j \in i..Len(abils) :
        /\ \A m \in i..j : IsKw(abils[m])
        /\ (j = Len(abils) \/ ~IsKw(abils[j + 1]))

\* the run's names joined by ", ": the first with its first character in
\* upper case, the others as they are, or all of them capitalized
RunLineFirstCap(abils, i) ==
    Join([m \in 1..(RunEnd(abils, i) - i + 1) |->
            IF m = 1 THEN to_uppercase_first(abils[i].keyword)
            ELSE abils[i + m - 1].keyword], <<",", " ">>)

RunLineAllCap(abils, i) ==
    Join([m \in 1..(RunEnd(abils, i) - i + 1) |->
            to_uppercase_first(abils[i + m - 1].keyword)], <<",", " ">>)

\* the lines position by position: one line where a run starts, nothing at
\* the run's other keywords, and the lines of the ability alone elsewhere
RECURSIVE LinesFromFirstCap(_, _)
LinesFromFirstCap(abils, i) ==
    IF i > Len(abils) THEN <<>>
    ELSE (IF RunStart(abils, i) THEN <<RunLineFirstCap(abils, i)>>
          ELSE IF IsKw(abils[i]) THEN <<>>
          ELSE ability_lines(<<abils[i]>>))
         \o LinesFromFirstCap(abils, i + 1)

RECURSIVE LinesFromAllCap(_, _)
LinesFromAllCap(abils, i) ==
    IF i > Len(abils) THEN <<>>
    ELSE (IF RunStart(abils, i) THEN <<RunLineAllCap(abils, i)>>
          ELSE IF IsKw(abils[i]) THEN <<>>
          ELSE ability_lines(<<abils[i]>>))
         \o LinesFromAllCap(abils, i + 1)

\* C4 (as amended): every maximal run of consecutive Keyword abilities gives
\* exactly one line, standing where the run stands among the other lines:
\* the run's keyword names joined by ", ", the first name with its first
\* character in upper case and the later names as the keyword writes itself
\* ("Flying, trample"); a run at the end of the input is emitted too.
C4_KeywordRuns ==
    apc = "done" => lines = LinesFromFirstCap(abilities, 1)

\* [Keyword(flying), Keyword(trample), Other("Whenever...")] was formatted
C4_Witness ==
    /\ apc = "done"
    /\ abilities = <<Keyword(Flying), Keyword(Trample), Other(Whenever)>>
    /\ lines = <<<<"F", "l", "y", "i", "n", "g", ",", " ", "t", "r", "a", "m", "p", "l", "e">>,
                 Whenever>>

\* C4 as stated: every keyword name of the run's line is capitalized, as in
\* "Flying, Trample"
C4_Original ==
    apc = "done" => lines = LinesFromAllCap(abilities, 1)

\* the lines the claim gives for one Level ability
LevelTag(l) ==
    <<"{", "L", "E", "V", "E", "L", " ">> \o to_string(l.min)
        \o (IF l.max.some THEN <<"-">> \o to_string(l.max.val) ELSE <<"+">>) \o <<"}">>

LevelLines(l) ==
    LET pt == to_string(l.power) \o <<"/">> \o to_string(l.toughness)
    IN  IF l.abilities = <<>> THEN <<LevelTag(l) \o <<" ">> \o pt>>
        ELSE <<LevelTag(l)>> \o LinesFromFirstCap(l.abilities, 1) \o <<pt>>

\* C5: a Level ability gives "{LEVEL min-max}" or "{LEVEL min+}" with
\* " power/toughness" on the same line when it has no nested ability, and
\* else the tag alone, the lines of its nested abilities formatted on their
\* own (their keyword run flushed before the end), then "power/toughness";
\* what stands before the Level ability is formatted and flushed before the
\* tag, what stands after it starts afresh.
C5_LevelLines ==
    apc = "done" =>
        \A i \in 1..Len(abilities) :
            abilities[i].kind = "Level" =>
                lines = ability_lines(SubSeq(abilities, 1, i - 1))
                            \o LevelLines(abilities[i])
                            \o ability_lines(SubSeq(abilities, i + 1, Len(abilities)))

\* a keyword, then a level with two nested keywords, then a keyword
C5_Witness ==
    /\ apc = "done"
    /\ abilities = <<Keyword(Flying),
                     Level(1, Some(2), 10, 12, <<Keyword(Flying), Keyword(Trample)>>),
                     Keyword(Trample)>>
    /\ lines = <<<<"F", "l", "y", "i", "n", "g">>,
                 <<"{", "L", "E", "V", "E", "L", " ", "1", "-", "2", "}">>,
                 <<"F", "l", "y", "i", "n", "g", ",", " ", "t", "r", "a", "m", "p", "l", "e">>,
                 <<"1", "0", "/", "1", "2">>,
                 <<"T", "r", "a", "m", "p", "l", "e">>>>

(***************************************************************************)
(* Encoder: cost_to_mse applied to one mana cost                           *)
(***************************************************************************)
CostInit ==
    /\ cost \in CostSet
    /\ encoded = <<>>
    /\ cpc = "ready"
    /\ SerIdle /\ MergeIdle /\ AbilIdle /\ CardIdle /\ SetIdle /\ WriteIdle

CostToMse ==
    /\ cpc = "ready"
    /\ encoded' = cost_to_mse(cost)
    /\ cpc' = "done"
    /\ UNCHANGED <<cost, serVars, mergeVars, abilVars, cardVars, setVars, writeVars>>

CostNext == CostToMse

SpecCost == CostInit /\ [][CostNext]_vars

\* C6: the encoding is the symbols' tokens in input order without separator:
\* cut anywhere, the encoding of the whole is the encoding of the front
\* followed by that of the back, and the empty cost encodes to the empty
\* string; [Generic(2), White, HybridWhiteBlue] gives "2WW/U"; [White, Blue]
\* and [Blue, White] differ; a symbol standing twice is written twice.
C6_CostConcat ==
    cpc = "done" =>
        /\ \A i \in 0..Len(cost) :
             encoded = cost_to_mse(SubSeq(cost, 1, i)) \o cost_to_mse(SubSeq(cost, i + 1, Len(cost)))
        /\ (cost = <<>> => encoded = <<>>)
        /\ (cost = <<Generic(2), Symbol("White"), Symbol("HybridWhiteBlue")>>
                => encoded = <<"2", "W", "W", "/", "U">>)
        /\ (cost = <<Symbol("White"), Symbol("Blue")>>
                => (encoded = <<"W", "U">>
                    /\ encoded # cost_to_mse(<<Symbol("Blue"), Symbol("White")>>)))
        /\ (Len(cost) = 2 /\ cost[1] = cost[2] => encoded = SymbolToken(cost[1]) \o SymbolToken(cost[1]))

\* [Generic(2), White, HybridWhiteBlue] was encoded to "2WW/U"
C6_Witness ==
    /\ cpc = "done"
    /\ cost = <<Generic(2), Symbol("White"), Symbol("HybridWhiteBlue")>>
    /\ encoded = <<"2", "W", "W", "/", "U">>

(***************************************************************************)
(* Translator: one card added to a new set file                            *)
(***************************************************************************)
CardInit ==
    /\ arg_card \in CardSet
    /\ arg_game \in MseGames
    /\ \E args \in ArgsSet : set_file = NewFor(arg_game, args, 1)
    /\ kpc = "ready"
    /\ SerIdle /\ MergeIdle /\ AbilIdle /\ CostIdle /\ SetIdle /\ WriteIdle

AddCard ==
    /\ kpc = "ready"
    /\ set_file' = add_card(set_file, arg_card, arg_game)
    /\ kpc' = "done"
    /\ UNCHANGED <<arg_card, arg_game, serVars, mergeVars, abilVars, costVars, setVars, writeVars>>

CardNext == AddCard

SpecCard == CardInit /\ [][CardNext]_vars

\* the Document add_card pushed: the value of the last entry of the set file
CardTree == set_file.items[Len(set_file.items)][2].file.items

KeysIn(items) == [i \in 1..Len(items) |-> items[i][1]]

HasKey(items, key) == \E i \in 1..Len(items) : items[i][1] = key

IndexOfKey(items, key) == CHOOSE i \in 1..Len(items) : items[i][1] = key

Occurrences(items, key) == Cardinality({i \in 1..Len(items) : items[i][1] = key})

With2(key) == key \o <<" ", "2">>

\* the field names of one face, without suffix
FaceKeys ==
    {<<"n", "a", "m", "e">>,
     <<"c", "a", "s", "t", "i", "n", "g", " ", "c", "o", "s", "t">>,
     <<"s", "u", "p", "e", "r", " ", "t", "y", "p", "e">>,
     <<"t", "y", "p", "e">>,
     <<"s", "u", "b", " ", "t", "y", "p", "e">>,
     <<"r", "a", "r", "i", "t", "y">>,
     <<"r", "u", "l", "e", " ", "t", "e", "x", "t">>,
     <<"l", "o", "y", "a", "l", "t", "y">>,
     <<"p", "o", "w", "e", "r">>,
     <<"t", "o", "u", "g", "h", "n", "e", "s", "s">>,
     <<"h", "a", "n", "d", "m", "o", "d">>,
     <<"l", "i", "f", "e", "m", "o", "d">>}

StylesheetKey == <<"s", "t", "y", "l", "e", "s", "h", "e", "e", "t">>

\* whether from_card translated the other face, and how many entries that
\* face gave: they stand in front of the card's own
OtherFaceLen ==
    IF arg_game = "Magic" /\ arg_card.layout.kind \in TwoFaced /\ ~arg_card.alt
    THEN Len(from_card(arg_card.layout.other, arg_game).items)
    ELSE 0

OwnEntries == SubSeq(CardTree, OtherFaceLen + 1, Len(CardTree))

\* C7: for a card whose alternate-face flag is set every key of the result
\* is one of the field names with " 2" behind it and no unsuffixed key
\* stands in the result; for a card whose flag is not set the entries of the
\* card itself carry the field names without suffix (and "stylesheet"); for
\* no field does one face give both the suffixed and the unsuffixed key.
C7_AltSuffix ==
    kpc = "done" =>
        /\ arg_card.alt =>
             \A i \in 1..Len(CardTree) :
                /\ CardTree[i][1] \in {With2(k) : k \in FaceKeys}
                /\ ~HasKey(CardTree, SubSeq(CardTree[i][1], 1, Len(CardTree[i][1]) - 2))
        /\ ~arg_card.alt =>
             \A i \in 1..Len(OwnEntries) :
                /\ OwnEntries[i][1] \in FaceKeys \cup {StylesheetKey}
                /\ ~HasKey(OwnEntries, With2(OwnEntries[i][1]))
        /\ HasKey(OwnEntries, IF arg_card.alt THEN With2(Key.name) ELSE Key.name)

\* an alternate face with a mana cost, a rule text and power/toughness was
\* translated for Magic
C7_Witness ==
    /\ kpc = "done" /\ arg_card.alt /\ arg_game = "Magic"
    /\ KeysIn(CardTree) =
        <<With2(Key.name), With2(Key.casting_cost), With2(Key.super_type), With2(Key.sub_type),
          With2(Key.rarity), With2(Key.rule_text), With2(Key.power), With2(Key.toughness)>>

\* a keyword Aftermath among the abilities of the right face
RightHasAftermath ==
    \E i \in 1..Len(arg_card.layout.other.abilities) :
        /\ arg_card.layout.other.abilities[i].kind = "Keyword"
        /\ arg_card.layout.other.abilities[i].keyword = <<"a", "f", "t", "e", "r", "m", "a", "t", "h">>

SplitSheetSelected ==
    /\ CardTree # <<>>
    /\ CardTree[Len(CardTree)][1] = StylesheetKey
    /\ CardTree[Len(CardTree)][2] =
         Flat(IF RightHasAftermath
              THEN <<"m", "1", "5", "-", "a", "f", "t", "e", "r", "m", "a", "t", "h">>
              ELSE <<"m", "1", "5", "-", "s", "p", "l", "i", "t", "-", "f", "u", "s", "a", "b",
                     "l", "e">>)

\* C8 (as amended): translated for Magic, a Split card that is not itself an
\* alternate face gets the stylesheet "m15-aftermath" when its right face
\* has the keyword Aftermath among its abilities and "m15-split-fusable"
\* otherwise; a Split card that is an alternate face, or that is translated
\* for Archenemy or Vanguard, gets no stylesheet entry.
C8_SplitStylesheet ==
    (kpc = "done" /\ arg_card.layout.kind = "Split") =>
        IF arg_game = "Magic" /\ ~arg_card.alt
        THEN SplitSheetSelected /\ Occurrences(OwnEntries, StylesheetKey) = 1
        ELSE ~HasKey(CardTree, StylesheetKey)

\* a Split card whose right face has Aftermath as its second ability was
\* translated for Magic
C8_Witness ==
    /\ kpc = "done" /\ arg_game = "Magic" /\ ~arg_card.alt
    /\ arg_card.layout.kind = "Split"
    /\ Len(arg_card.layout.other.abilities) = 2
    /\ RightHasAftermath
    /\ CardTree[Len(CardTree)] =
         <<StylesheetKey,
           Flat(<<"m", "1", "5", "-", "a", "f", "t", "e", "r", "m", "a", "t", "h">>)>>

\* C8 as stated: every Split card selects one of the two stylesheets
C8_Original ==
    (kpc = "done" /\ arg_card.layout.kind = "Split") => SplitSheetSelected

\* the keys are all in the tree, once each, in the order given
InOrder(items, keys) ==
    /\ \A i \in 1..Len(keys) : Occurrences(items, keys[i]) = 1
    /\ \A i \in 1..(Len(keys) - 1) : IndexOfKey(items, keys[i]) < IndexOfKey(items, keys[i + 1])

\* C9: a Normal-layout creature that is no planeswalker, with a
\* power/toughness pair and rarity Common, translated for Magic and added
\* with add_card, gives a last top-level entry "card" whose tree holds name,
\* casting cost (exactly when the card has a mana cost), super type, sub
\* type, rarity "common", power, toughness in this order and no loyalty.
C9_CreatureFields ==
    (/\ kpc = "done" /\ arg_game = "Magic"
     /\ arg_card.layout.kind = "Normal"
     /\ HasType(arg_card, <<"C", "r", "e", "a", "t", "u", "r", "e">>)
     /\ ~HasType(arg_card, <<"P", "l", "a", "n", "e", "s", "w", "a", "l", "k", "e", "r">>)
     /\ arg_card.pt.some /\ arg_card.rarity = "Common")
    =>  /\ set_file.items[Len(set_file.items)][1] = <<"c", "a", "r", "d">>
        /\ set_file.items[Len(set_file.items)][2].kind = "Subfile"
        /\ InOrder(CardTree,
             <<<<"n", "a", "m", "e">>>>
             \o (IF arg_card.mana_cost.some
                 THEN <<<<"c", "a", "s", "t", "i", "n", "g", " ", "c", "o", "s", "t">>>>
                 ELSE <<>>)
             \o <<<<"s", "u", "p", "e", "r", " ", "t", "y", "p", "e">>,
                  <<"s", "u", "b", " ", "t", "y", "p", "e">>,
                  <<"r", "a", "r", "i", "t", "y">>,
                  <<"p", "o", "w", "e", "r">>,
                  <<"t", "o", "u", "g", "h", "n", "e", "s", "s">>>>)
        /\ (HasKey(CardTree, <<"c", "a", "s", "t", "i", "n", "g", " ", "c", "o", "s", "t">>)
                <=> arg_card.mana_cost.some)
        /\ CardTree[IndexOfKey(CardTree, <<"r", "a", "r", "i", "t", "y">>)][2]
                = Flat(<<"c", "o", "m", "m", "o", "n">>)
        /\ ~HasKey(CardTree, <<"l", "o", "y", "a", "l", "t", "y">>)

\* such a creature, with a mana cost and with a loyalty value besides its
\* power and toughness, was added
C9_Witness ==
    /\ kpc = "done" /\ arg_game = "Magic"
    /\ arg_card.layout.kind = "Normal"
    /\ arg_card.card_types = <<TypeName.Creature>>
    /\ arg_card.pt.some /\ arg_card.loyalty.some /\ arg_card.rarity = "Common"
    /\ arg_card.mana_cost.some
    /\ Len(set_file.items) = 6
    /\ KeysIn(CardTree) = <<Key.name, Key.casting_cost, Key.super_type, Key.sub_type,
                            Key.rarity, Key.power, Key.toughness>>

\* the field names of one face with " 2" behind them
FaceKeys2 == {With2(k) : k \in FaceKeys}

\* C11 as stated: for Magic and a card that is not an alternate face, with
\* Split, Flip, DoubleFaced or Meld layout, every unsuffixed field of the
\* card's tree stands before every " 2"-suffixed field.
C11_PrimaryFirst ==
    (/\ kpc = "done" /\ arg_game = "Magic" /\ ~arg_card.alt
     /\ arg_card.layout.kind \in {"Split", "Flip", "DoubleFaced", "Meld"})
    =>  \A i, j \in 1..Len(CardTree) :
            (CardTree[i][1] \in FaceKeys /\ CardTree[j][1] \in FaceKeys2) => i < j

\* the key as the face of arg_card writes it
OwnKey(key) == IF arg_card.alt THEN With2(key) ELSE key

StatNames ==
    {<<"l", "o", "y", "a", "l", "t", "y">>, <<"p", "o", "w", "e", "r">>,
     <<"t", "o", "u", "g", "h", "n", "e", "s", "s">>, <<"h", "a", "n", "d", "m", "o", "d">>,
     <<"l", "i", "f", "e", "m", "o", "d">>}

IsStatEntry(entry) == entry[1] \in {OwnKey(k) : k \in StatNames}

\* the stat entries of the face itself, in the order written
OwnStats == SelectSeq(OwnEntries, IsStatEntry)

\* a stat entry as the claim gives it: the field name and the number
StatEntry(name, n) == <<OwnKey(name), [kind |-> "Flat", text |-> to_string(n)]>>

IsPlaneswalker ==
    \E i \in 1..Len(arg_card.card_types) :
        arg_card.card_types[i] = <<"P", "l", "a", "n", "e", "s", "w", "a", "l", "k", "e", "r">>

\* the stat fields the claim gives for Magic
MagicStatsClaimed ==
    IF IsPlaneswalker
    THEN IF arg_card.loyalty.some
         THEN <<StatEntry(<<"l", "o", "y", "a", "l", "t", "y">>, arg_card.loyalty.val)>>
         ELSE <<>>
    ELSE IF arg_card.pt.some
    THEN <<StatEntry(<<"p", "o", "w", "e", "r">>, arg_card.pt.val[1]),
           StatEntry(<<"t", "o", "u", "g", "h", "n", "e", "s", "s">>, arg_card.pt.val[2])>>
    ELSE IF arg_card.stability.some
    THEN <<StatEntry(<<"p", "o", "w", "e", "r">>, arg_card.stability.val)>>
    ELSE IF arg_card.vanguard_modifiers.some
    THEN <<StatEntry(<<"p", "o", "w", "e", "r">>, arg_card.vanguard_modifiers.val[1]),
           StatEntry(<<"t", "o", "u", "g", "h", "n", "e", "s", "s">>,
                     arg_card.vanguard_modifiers.val[2])>>
    ELSE <<>>

\* C12: the stat fields of the face translated follow the game. For Magic:
\* the loyalty value of a planeswalker (nothing when it has no such value);
\* else power and toughness of the pair; else power from the stability; else
\* power and toughness from the hand/life modifiers. So no face has loyalty
\* and power together, a planeswalker has neither power nor toughness, and
\* toughness stands only with power. For Vanguard handmod and lifemod from
\* the modifiers and nothing else; for Archenemy no stat field.
C12_StatFields ==
    kpc = "done" =>
        /\ arg_game = "Magic" =>
            /\ OwnStats = MagicStatsClaimed
            /\ ~(HasKey(OwnEntries, OwnKey(Key.loyalty)) /\ HasKey(OwnEntries, OwnKey(Key.power)))
            /\ IsPlaneswalker =>
                 /\ ~HasKey(OwnEntries, OwnKey(Key.power))
                 /\ ~HasKey(OwnEntries, OwnKey(Key.toughness))
            /\ HasKey(OwnEntries, OwnKey(Key.toughness)) => HasKey(OwnEntries, OwnKey(Key.power))
        /\ arg_game = "Vanguard" =>
            OwnStats = IF arg_card.vanguard_modifiers.some
                       THEN <<StatEntry(<<"h", "a", "n", "d", "m", "o", "d">>,
                                        arg_card.vanguard_modifiers.val[1]),
                              StatEntry(<<"l", "i", "f", "e", "m", "o", "d">>,
                                        arg_card.vanguard_modifiers.val[2])>>
                       ELSE <<>>
        /\ arg_game = "Archenemy" => OwnStats = <<>>

\* a planeswalker creature that has a loyalty, a power/toughness pair, a
\* stability and modifiers was translated for Magic: loyalty alone
C12_Witness ==
    /\ kpc = "done" /\ arg_game = "Magic"
    /\ IsPlaneswalker /\ Len(arg_card.card_types) = 2
    /\ arg_card.loyalty.some /\ arg_card.pt.some
    /\ arg_card.stability.some /\ arg_card.vanguard_modifiers.some
    /\ OwnStats = <<<<Key.loyalty, Flat(<<"4">>)>>>>

OfType(name) == \E i \in 1..Len(arg_card.card_types) : arg_card.card_types[i] = name

\* the stylesheet the claim gives a primary face translated for Magic, by
\* layout; [named |-> FALSE] for no stylesheet field (the Split layout, which
\* C8 treats, is not covered here)
SheetClaimed ==
    CASE arg_card.layout.kind = "Normal" ->
            IF OfType(<<"P", "l", "a", "n", "e">>)
                \/ OfType(<<"P", "h", "e", "n", "o", "m", "e", "n", "o", "n">>)
            THEN [named |-> TRUE, name |-> <<"m", "1", "5", "-", "m", "a", "i", "n", "f", "r", "a", "m", "e", "-",
                   "p", "l", "a", "n", "e", "s">>]
            ELSE IF OfType(<<"P", "l", "a", "n", "e", "s", "w", "a", "l", "k", "e", "r">>)
            THEN [named |-> TRUE, name |-> <<"m", "1", "5", "-", "m", "a", "i", "n", "f", "r", "a", "m", "e", "-",
                   "p", "l", "a", "n", "e", "s", "w", "a", "l", "k", "e", "r">>]
            ELSE IF arg_card.leveler
            THEN [named |-> TRUE, name |-> <<"m", "1", "5", "-", "l", "e", "v", "e", "l", "e", "r">>]
            ELSE IF OfType(<<"C", "o", "n", "s", "p", "i", "r", "a", "c", "y">>)
            THEN [named |-> TRUE, name |-> <<"m", "1", "5", "-", "t", "t", "k", "-", "c", "o", "n", "s", "p", "i", "r",
                   "a", "c", "y">>]
            ELSE [named |-> FALSE]
      [] arg_card.layout.kind = "Flip" -> [named |-> TRUE, name |-> <<"m", "1", "5", "-", "f", "l", "i", "p">>]
      [] arg_card.layout.kind \in {"DoubleFaced", "Meld"} ->
            [named |-> TRUE,
             name |-> <<"m", "1", "5", "-", "m", "a", "i", "n", "f", "r", "a", "m", "e", "-",
                        "d", "f", "c">>]
      [] arg_card.layout.kind = "Adventure" -> [named |-> FALSE]

\* the stylesheet entries among the entries of the face itself
OwnSheets == SelectSeq(OwnEntries, LAMBDA entry : entry[1] = StylesheetKey)

\* C13: a card that is not an alternate face, translated for Magic, gets
\* the stylesheet of the decision order (Normal layout: Plane or Phenomenon,
\* else Planeswalker, else leveler, else Conspiracy, else none; Flip: flip;
\* DoubleFaced and Meld: double-faced; Adventure: none) as the one
\* stylesheet entry of its own fields; a card translated for Archenemy or
\* Vanguard and an alternate face get no stylesheet entry; no key
\* "stylesheet 2" is ever written.
C13_StylesheetOrder ==
    kpc = "done" =>
        /\ (arg_game = "Magic" /\ ~arg_card.alt /\ arg_card.layout.kind # "Split") =>
             IF SheetClaimed.named
             THEN /\ OwnSheets = <<<<StylesheetKey, [kind |-> "Flat", text |-> SheetClaimed.name]>>>>
                  /\ CardTree[Len(CardTree)][1] = StylesheetKey
             ELSE OwnSheets = <<>>
        /\ (arg_game # "Magic" \/ arg_card.alt) => ~HasKey(CardTree, StylesheetKey)
        /\ ~HasKey(CardTree, With2(StylesheetKey))

\* a planeswalker of Normal layout that is also a leveler was translated
\* for Magic and got the planeswalker stylesheet
C13_Witness ==
    /\ kpc = "done" /\ arg_game = "Magic" /\ ~arg_card.alt
    /\ arg_card.layout.kind = "Normal" /\ arg_card.leveler
    /\ OfType(<<"P", "l", "a", "n", "e", "s", "w", "a", "l", "k", "e", "r">>)
    /\ CardTree[Len(CardTree)] = <<StylesheetKey, Flat(Stylesheet.planeswalker)>>

\* how many faces were translated: every call of from_card writes one name
\* entry, "name" or "name 2"
Calls ==
    Cardinality({i \in 1..Len(CardTree) :
                    CardTree[i][1] \in {<<"n", "a", "m", "e">>, <<"n", "a", "m", "e", " ", "2">>}})

HasOther(face) == face.layout.other # [some |-> FALSE]

\* every face behind this one has its alternate-face flag set
RECURSIVE OthersFlagged(_)
OthersFlagged(face) ==
    ~HasOther(face) \/ (face.layout.other.alt /\ OthersFlagged(face.layout.other))

\* C15: from_card translates another face only when the game is Magic, the
\* layout is Split, Flip, DoubleFaced or Meld and the card is not an
\* alternate face; what stops it is the flag of the card, not a depth: an
\* other face that is not flagged and has such a layout is translated with
\* the face behind it. When every face behind the card is flagged, at most
\* two faces are translated, one with plain and one with suffixed keys.
C15_RecursionGuard ==
    kpc = "done" =>
        /\ Calls >= 1
        /\ Calls >= 2 =>
             /\ arg_game = "Magic" /\ ~arg_card.alt
             /\ arg_card.layout.kind \in {"Split", "Flip", "DoubleFaced", "Meld"}
        /\ (arg_game # "Magic" \/ arg_card.alt \/ arg_card.layout.kind \in {"Normal", "Adventure"})
             => Calls = 1
        /\ (/\ arg_game = "Magic" /\ ~arg_card.alt
            /\ arg_card.layout.kind \in {"Split", "Flip", "DoubleFaced", "Meld"}
            /\ ~arg_card.layout.other.alt
            /\ arg_card.layout.other.layout.kind \in {"Split", "Flip", "DoubleFaced", "Meld"})
             => Calls >= 3
        /\ OthersFlagged(arg_card) =>
             /\ Calls <= 2
             /\ Occurrences(CardTree, <<"n", "a", "m", "e">>) <= 1
             /\ Occurrences(CardTree, <<"n", "a", "m", "e", " ", "2">>) <= 1
             /\ \A i \in 1..Len(CardTree) :
                    CardTree[i][1] \in FaceKeys \cup FaceKeys2 \cup {StylesheetKey}

\* a card whose other face is an alternate face that holds a face itself
\* was translated for Magic: two faces, the third is not reached
C15_Witness ==
    /\ kpc = "done" /\ arg_game = "Magic" /\ ~arg_card.alt
    /\ arg_card.layout.kind = "DoubleFaced"
    /\ arg_card.layout.other.alt /\ HasOther(arg_card.layout.other)
    /\ Calls = 2
    /\ CardTree[1][1] = With2(Key.name)

(***************************************************************************)
(* Set builder: new / new_schemes / new_vanguards, then add_card per card  *)
(***************************************************************************)
SetInit ==
    /\ s_new \in {NewFor(g, args, n) : g \in MseGames, args \in ArgsSet, n \in 0..MaxCards}
    /\ s_file = s_new
    /\ s_cards = <<>>
    /\ s_ret = "none"
    /\ SerIdle /\ MergeIdle /\ AbilIdle /\ CostIdle /\ CardIdle /\ WriteIdle

\* one call of add_card(card, db, mse_game, args): Ok(()) after the push
SetAddCard ==
    /\ Len(s_cards) < MaxCards
    /\ \E c \in SetCards, g \in MseGames :
        /\ s_file' = add_card(s_file, c, g)
        /\ s_cards' = Append(s_cards, <<c, g>>)
    /\ s_ret' = "Ok"
    /\ UNCHANGED <<s_new, serVars, mergeVars, abilVars, costVars, cardVars, writeVars>>

SetNext == SetAddCard

SpecSet == SetInit /\ [][SetNext]_vars

\* C14: after n calls of add_card on a Document made by new, new_schemes or
\* new_vanguards, the top-level entries are the five header entries (mse
\* version, game, stylesheet, set info, styling) as the constructor left
\* them, then n entries with the key "card", the i-th holding the
\* translation of the i-th card given; the images are untouched and every
\* call returned Ok.
C14_CardsAfterHeader ==
    /\ Len(s_file.items) = 5 + Len(s_cards)
    /\ SubSeq(s_file.items, 1, 5) = s_new.items
    /\ KeysIn(SubSeq(s_file.items, 1, 5)) =
        <<<<"m", "s", "e", " ", "v", "e", "r", "s", "i", "o", "n">>,
          <<"g", "a", "m", "e">>,
          <<"s", "t", "y", "l", "e", "s", "h", "e", "e", "t">>,
          <<"s", "e", "t", " ", "i", "n", "f", "o">>,
          <<"s", "t", "y", "l", "i", "n", "g">>>>
    /\ \A i \in 1..Len(s_cards) :
        s_file.items[5 + i] =
            <<<<"c", "a", "r", "d">>,
              [kind |-> "Subfile", file |-> from_card(s_cards[i][1], s_cards[i][2])]>>
    /\ s_file.images = s_new.images
    /\ s_cards # <<>> => s_ret = "Ok"

\* two different cards were added one after the other: two entries "card"
\* with different trees behind the header
C14_Witness ==
    /\ Len(s_cards) = 2 /\ s_cards[1] # s_cards[2]
    /\ Len(s_file.items) = 7
    /\ s_file.items[6][1] = Key.card /\ s_file.items[7][1] = Key.card
    /\ s_file.items[6][2] # s_file.items[7][2]
    /\ s_file.items[7][2] = Subfile(from_card(s_cards[2][1], s_cards[2][2]))

(***************************************************************************)
(* Writer: Output::write_set_file and DataFile::write_to, one I/O          *)
(* operation per step; every operation may fail                            *)
(***************************************************************************)
WriteInit ==
    /\ w_self \in WriteFiles
    /\ w_output \in {"File", "Stdout"}
    /\ w_pc = IF w_output = "File" THEN "create" ELSE "start_set"
    /\ w_i = 0
    /\ w_zip = <<>> /\ w_log = <<>> /\ w_ret = "none" /\ w_stdout = <<>> /\ w_result = "none"
    /\ SerIdle /\ MergeIdle /\ AbilIdle /\ CostIdle /\ CardIdle /\ SetIdle

otherVars == <<serVars, mergeVars, abilVars, costVars, cardVars, setVars>>

Logged(op, arg, ok) == [op |-> op, arg |-> arg, ok |-> ok]

\* the ? of write_to, and the ? of write_set_file on its result: the error
\* is returned by both, nothing else is done
Fail == w_pc' = "done" /\ w_ret' = "Err" /\ w_result' = "Err"

\* format!("image{}", i + 1), with i counted from 0
ImageNameZeroBased(i) == <<"i", "m", "a", "g", "e">> \o to_string(i)

ImageName(i) == <<"i", "m", "a", "g", "e">> \o to_string(i + 1)

\* Output::File: File::create(path)?
CreateFile ==
    /\ w_pc = "create"
    /\ \/ w_pc' = "start_set" /\ UNCHANGED w_result
       \/ w_pc' = "done" /\ w_result' = "Err"
    /\ UNCHANGED <<w_self, w_output, w_i, w_zip, w_log, w_ret, w_stdout, otherVars>>

\* zip.start_file("set", FileOptions::default())?
StartSet ==
    /\ w_pc = "start_set"
    /\ \/ /\ w_zip' = Append(w_zip, [name |-> <<"s", "e", "t">>, data |-> <<>>])
          /\ w_log' = Append(w_log, Logged("start_file", <<"s", "e", "t">>, TRUE))
          /\ w_pc' = "write_set"
          /\ UNCHANGED <<w_ret, w_result>>
       \/ /\ w_log' = Append(w_log, Logged("start_file", <<"s", "e", "t">>, FALSE))
          /\ Fail
          /\ UNCHANGED w_zip
    /\ UNCHANGED <<w_self, w_output, w_i, w_stdout, otherVars>>

\* self.write_inner(&mut zip, 0)?: all of the text, or an error after a part
\* of it
WriteSet ==
    /\ w_pc = "write_set"
    /\ \/ /\ w_zip' = [w_zip EXCEPT ![Len(w_zip)].data = write_inner(w_self, @, 0)]
          /\ w_log' = Append(w_log, Logged("write_inner", <<>>, TRUE))
          /\ w_pc' = "loop"
          /\ UNCHANGED <<w_ret, w_result>>
       \/ /\ \E part \in Prefixes(write_inner(w_self, <<>>, 0)) :
                w_zip' = [w_zip EXCEPT ![Len(w_zip)].data = @ \o part]
          /\ w_log' = Append(w_log, Logged("write_inner", <<>>, FALSE))
          /\ Fail
    /\ UNCHANGED <<w_self, w_output, w_i, w_stdout, otherVars>>

\* the head of the loop over self.images, with
\* zip.start_file(format!("image{}", i + 1), FileOptions::default())?
StartImage ==
    /\ w_pc = "loop" /\ w_i < Len(w_self.images)
    /\ \/ /\ w_zip' = Append(w_zip, [name |-> ImageName(w_i), data |-> <<>>])
          /\ w_log' = Append(w_log, Logged("start_file", ImageName(w_i), TRUE))
          /\ w_pc' = "open"
          /\ UNCHANGED <<w_ret, w_result>>
       \/ /\ w_log' = Append(w_log, Logged("start_file", ImageName(w_i), FALSE))
          /\ Fail
          /\ UNCHANGED w_zip
    /\ UNCHANGED <<w_self, w_output, w_i, w_stdout, otherVars>>

\* File::open(&image_path)?
OpenImage ==
    /\ w_pc = "open"
    /\ \/ /\ w_log' = Append(w_log, Logged("open", w_self.images[w_i + 1], TRUE))
          /\ w_pc' = "copy"
          /\ UNCHANGED <<w_ret, w_result>>
       \/ /\ w_log' = Append(w_log, Logged("open", w_self.images[w_i + 1], FALSE))
          /\ Fail
    /\ UNCHANGED <<w_self, w_output, w_i, w_zip, w_stdout, otherVars>>

\* io::copy(&mut file, &mut zip)?: all of the file's bytes, or an error after
\* a part of them; then the next image
CopyImage ==
    /\ w_pc = "copy"
    /\ \/ /\ w_zip' = [w_zip EXCEPT ![Len(w_zip)].data = @ \o FileBytes(w_self.images[w_i + 1])]
          /\ w_log' = Append(w_log, Logged("copy", w_self.images[w_i + 1], TRUE))
          /\ w_pc' = "loop"
          /\ w_i' = w_i + 1
          /\ UNCHANGED <<w_ret, w_result>>
       \/ /\ \E part \in Prefixes(FileBytes(w_self.images[w_i + 1])) :
                w_zip' = [w_zip EXCEPT ![Len(w_zip)].data = @ \o part]
          /\ w_log' = Append(w_log, Logged("copy", w_self.images[w_i + 1], FALSE))
          /\ Fail
          /\ UNCHANGED w_i
    /\ UNCHANGED <<w_self, w_output, w_stdout, otherVars>>

\* the loop is over: write_to returns Ok(()); write_set_file returns Ok(())
\* for Output::File and goes on to the copy for Output::Stdout
Return ==
    /\ w_pc = "loop" /\ w_i = Len(w_self.images)
    /\ w_ret' = "Ok"
    /\ IF w_output = "File"
       THEN w_pc' = "done" /\ w_result' = "Ok"
       ELSE w_pc' = "copy_stdout" /\ UNCHANGED w_result
    /\ UNCHANGED <<w_self, w_output, w_i, w_zip, w_log, w_stdout, otherVars>>

\* Output::Stdout: io::copy(&mut buf, &mut stdout())? reads the cursor from
\* its position, which the writes have left at the end of the buffer
CopyStdout ==
    /\ w_pc = "copy_stdout"
    /\ w_pc' = "done"
    /\ \/ w_stdout' = SubSeq(w_zip, Len(w_zip) + 1, Len(w_zip)) /\ w_result' = "Ok"
       \/ w_result' = "Err" /\ UNCHANGED w_stdout
    /\ UNCHANGED <<w_self, w_output, w_i, w_zip, w_log, w_ret, otherVars>>

WriteNext ==
    \/ CreateFile
    \/ StartSet
    \/ WriteSet
    \/ StartImage
    \/ OpenImage
    \/ CopyImage
    \/ Return
    \/ CopyStdout

SpecWrite == WriteInit /\ [][WriteNext]_vars

\* the operations the claim gives for a DataFile with the images given, from
\* the k-th image on: the stream "image<k>", then the image file opened and
\* copied
RECURSIVE ImageOps(_, _)
ImageOps(images, k) ==
    IF k > Len(images) THEN <<>>
    ELSE <<[op |-> "start_file",
            arg |-> <<"i", "m", "a", "g", "e">> \o <<(<<"1", "2", "3", "4", "5">>)[k]>>],
           [op |-> "open", arg |-> images[k]],
           [op |-> "copy", arg |-> images[k]]>>
         \o ImageOps(images, k + 1)

ClaimedOps ==
    <<[op |-> "start_file", arg |-> <<"s", "e", "t">>], [op |-> "write_inner", arg |-> <<>>]>>
        \o ImageOps(w_self.images, 1)

StartedNames ==
    LET started == SelectSeq(w_log, LAMBDA e : e.op = "start_file" /\ e.ok)
    IN  [i \in 1..Len(started) |-> started[i].arg]

\* C10: write_to starts the stream "set" first and writes the depth-0
\* encoding into it, then starts one stream per image in image order, the
\* i-th named "image<i>", and copies the image file into it; it returns an
\* error exactly when one of its I/O operations failed, and the failed
\* operation is the last one it made: no stream is started and no image is
\* copied after it.
C10_WriteTo ==
    /\ Len(w_log) <= Len(ClaimedOps)
    /\ \A i \in 1..Len(w_log) :
         /\ w_log[i].op = ClaimedOps[i].op /\ w_log[i].arg = ClaimedOps[i].arg
         /\ (i < Len(w_log) => w_log[i].ok)
    /\ (w_ret = "Err") = (w_log # <<>> /\ ~w_log[Len(w_log)].ok)
    /\ [i \in 1..Len(w_zip) |-> w_zip[i].name] = StartedNames
    /\ w_ret = "Ok" =>
         /\ Len(w_log) = Len(ClaimedOps)
         /\ Len(w_zip) = 1 + Len(w_self.images)
         /\ w_zip[1] = [name |-> <<"s", "e", "t">>,
                        data |-> CrLfJoin(EntryLines(w_self.items, 0))]
         /\ \A i \in 1..Len(w_self.images) :
              w_zip[i + 1].data = FileBytes(w_self.images[i])
    /\ w_ret = "Err" => (w_pc = "done" /\ w_result = "Err")

\* the set and the first image were written, the stream of the second image
\* was started and its file could not be opened: write_to returned the error
\* with nothing copied into that stream
C10_Witness ==
    /\ w_ret = "Err" /\ w_pc = "done"
    /\ w_self.images = <<<<"q">>, <<"p">>>>
    /\ w_self.items # <<>>
    /\ Len(w_log) = 7 /\ w_log[7].op = "open"
    /\ [i \in 1..Len(w_zip) |-> w_zip[i].name]
         = <<<<"s", "e", "t">>, <<"i", "m", "a", "g", "e", "1">>,
             <<"i", "m", "a", "g", "e", "2">>>>
    /\ w_zip[2].data = <<"3">>
    /\ w_zip[3].data = <<>>

====
